---- MODULE Spec2Model ----
(***************************************************************************)
(* A model of the Lox tree-walking interpreter: the static resolver        *)
(* (rust/src/resolver.rs), the environment chain (src/environment.rs),     *)
(* the evaluator (src/interpreter.rs), user functions                      *)
(* (rust/src/lox_function.rs) and the driver Lox::run (src/lox.rs).        *)
(*                                                                         *)
(* A source is represented by the statement list the parser hands to the   *)
(* resolver.  Numbers are integers (the inputs use no fractions).          *)
(***************************************************************************)
EXTENDS Integers, Sequences, FiniteSets, TLC

\* ------------------------------------------------------------------ bounds
\* Statement executions one run may perform before it is cut off.
MaxSteps == 60

\* Values the native clock may return.
MaxClock == 1

\* The environments a heap built by calls of the Environment methods holds.
MaxEnvs == 3

\* The bytes of a scanned source.
MaxSource == 4

\* F applied to the value of v, with v evaluated once.
Bind(v, F(_)) == CHOOSE y \in {F(x) : x \in {v}} : TRUE

\* ------------------------------------------------------------- AST (expr)
Literal(v) == [t |-> "Literal", value |-> v]
Variable(id, name) == [t |-> "Variable", id |-> id, name |-> name]
Assign(id, name, value) == [t |-> "Assign", id |-> id, name |-> name, value |-> value]
Binary(left, op, right) == [t |-> "Binary", left |-> left, operator |-> op, right |-> right]
Logical(left, op, right) == [t |-> "Logical", left |-> left, operator |-> op, right |-> right]
Unary(op, right) == [t |-> "Unary", operator |-> op, right |-> right]
Grouping(e) == [t |-> "Grouping", expr |-> e]
CallExpr(callee, arguments) == [t |-> "Call", callee |-> callee, arguments |-> arguments]

\* ------------------------------------------------------------- AST (stmt)
\* An Option<..> field is a sequence of length 0 (None) or 1 (Some).
Block(statements) == [t |-> "Block", statements |-> statements]
Expression(e) == [t |-> "Expression", expr |-> e]
Function(name, params, body) == [t |-> "Function", name |-> name, params |-> params, body |-> body]
If(c, th, el) == [t |-> "If", condition |-> c, then_branch |-> th, else_branch |-> el]
PrintStmt(e) == [t |-> "Print", expr |-> e]
Return(e) == [t |-> "Return", value |-> e]
Var(name, initializer) == [t |-> "Var", name |-> name, initializer |-> initializer]
While(c, body) == [t |-> "While", condition |-> c, body |-> body]

\* ------------------------------------------------------------------ values
NIL == [k |-> "NIL"]
NUMBER(n) == [k |-> "NUMBER", n |-> n]
STRINGV(s) == [k |-> "STRING", s |-> s]
BOOL(b) == [k |-> "BOOL", b |-> b]
\* A user function: its declaration, the captured environment, and the
\* allocation that holds the value (callables compare by allocation).
LoxFunction(declaration, closure, rc) ==
  [k |-> "LoxFunction", declaration |-> declaration, closure |-> closure, rc |-> rc]
Clock == [k |-> "Clock", rc |-> 0]

IsCallable(v) == v.k \in {"LoxFunction", "Clock"}

\* ------------------------------------------------------------ Environment
\* The heap of environments is a sequence; an environment is named by its
\* index, and enclosing = 0 is None.
EnvironmentNew(envs, enclosing) ==
  Append(envs, [enclosing |-> enclosing, values |-> <<>>])

\* Environment::define writing to the enclosing environment when that one
\* binds the name and the environment itself does not.
EnvironmentDefineEnclosing(envs, env, name, value) ==
  IF /\ name \notin DOMAIN envs[env].values
     /\ envs[env].enclosing # 0
     /\ name \in DOMAIN envs[envs[env].enclosing].values
    THEN [envs EXCEPT ![envs[env].enclosing].values[name] = value]
  ELSE [envs EXCEPT ![env].values = (name :> value) @@ @]

\* Environment::define: `self.values.insert(name, value)`.
EnvironmentDefine(envs, env, name, value) ==
  [envs EXCEPT ![env].values = (name :> value) @@ @]

\* format!("Undefined variable '{}'.", name.lexeme)
ErrUndefined(name) == "Undefined variable '" \o name \o "'."

\* Environment::get: Ok(value), or the RuntimeError with its message.
RECURSIVE EnvironmentGet(_, _, _)
EnvironmentGet(envs, env, name) ==
  IF name \in DOMAIN envs[env].values
    THEN [ok |-> TRUE, value |-> envs[env].values[name], msg |-> ""]
  ELSE IF envs[env].enclosing # 0
    THEN EnvironmentGet(envs, envs[env].enclosing, name)
  ELSE [ok |-> FALSE, value |-> NIL, msg |-> ErrUndefined(name)]

\* Environment::assign writing to the environment it is called on.
EnvironmentAssignLocal(envs, env, name, value) ==
  IF \E e \in 1..Len(envs) : name \in DOMAIN envs[e].values
    THEN [ok |-> TRUE, envs |-> [envs EXCEPT ![env].values = (name :> value) @@ @],
          msg |-> ""]
  ELSE [ok |-> FALSE, envs |-> envs, msg |-> ErrUndefined(name)]

\* Environment::assign: Ok(()) and the heap after the assignment, or the
\* RuntimeError with its message.
RECURSIVE EnvironmentAssign(_, _, _, _)
EnvironmentAssign(envs, env, name, value) ==
  IF name \in DOMAIN envs[env].values
    THEN [ok |-> TRUE, envs |-> [envs EXCEPT ![env].values[name] = value], msg |-> ""]
  ELSE IF envs[env].enclosing # 0
    THEN EnvironmentAssign(envs, envs[env].enclosing, name, value)
  ELSE [ok |-> FALSE, envs |-> envs, msg |-> ErrUndefined(name)]

\* ---------------------------------------------------------------- Resolver
\* The resolver state r: the scope stack, the function-kind marker, the
\* interpreter's binding table it writes to, the standard output it prints
\* to, and err ("" while every step so far returned Ok).
ErrOwnInitializer == "Can't read local variable in its own initializer."
ErrTopLevelReturn == "Can't return from top-level code."
ErrAlreadyDeclared == "Already a variable with this name in this scope."

ResolverNew(locals, out) ==
  [scopes |-> <<>>, current_function |-> "NONE", locals |-> locals,
   out |-> out, err |-> ""]

ResolverErr(r, message) == [r EXCEPT !.err = message]

ResolverLine(text) == [src |-> "resolver", text |-> text]

\* Interpreter::resolve(expr, depth): the entry of the binding table for
\* the node expr.
InterpreterResolve(locals, id, depth) == (id :> depth) @@ locals

begin_scope(r) ==
  [r EXCEPT !.scopes = Append(@, <<>>),
            !.out = Append(@, ResolverLine("scopes"))]

end_scope(r) == [r EXCEPT !.scopes = SubSeq(@, 1, Len(@) - 1)]

\* declare with the contains_key check dropped.
declare_unchecked(r, name) ==
  IF r.scopes = <<>> THEN r
  ELSE [r EXCEPT !.scopes[Len(r.scopes)] = (name :> FALSE) @@ @]

declare(r, name) ==
  IF r.scopes = <<>> THEN r
  ELSE IF name \in DOMAIN r.scopes[Len(r.scopes)]
    THEN ResolverErr(r, ErrAlreadyDeclared)
  ELSE [r EXCEPT !.scopes[Len(r.scopes)] = (name :> FALSE) @@ @]

define(r, name) ==
  IF r.scopes = <<>> THEN r
  ELSE [r EXCEPT !.scopes[Len(r.scopes)] = (name :> TRUE) @@ @]

\* The loop of resolve_local from the scope at distance depth outward.
RECURSIVE resolve_local_from(_, _, _, _)
resolve_local_from(r0, id, name, depth) ==
  Bind(r0, LAMBDA r :
    IF depth >= Len(r.scopes) THEN r
    ELSE Bind([r EXCEPT !.out = Append(@, ResolverLine("scope"))], LAMBDA r1 :
           IF name \in DOMAIN r.scopes[Len(r.scopes) - depth]
             THEN [r1 EXCEPT !.out = Append(@, ResolverLine("contains!")),
                             !.locals = InterpreterResolve(@, id, depth)]
             ELSE resolve_local_from(r1, id, name, depth + 1)))

resolve_local(r, id, name) == resolve_local_from(r, id, name, 0)

\* The arm `_ => Ok(())` of the expression match: Expr::Call is the one
\* variant with no arm of its own.
resolve_other_expr(r, e) == r

\* The check of Expr::Variable with the not-ready test dropped.
read_in_own_initializer_never(r, name) == FALSE

\* Expr::Variable, inside `!self.scopes.is_empty()`: the name is in the
\* innermost scope and marked not ready.
read_in_own_initializer(r, name) ==
  /\ name \in DOMAIN r.scopes[Len(r.scopes)]
  /\ ~r.scopes[Len(r.scopes)][name]

RECURSIVE resolve_expr(_, _)
resolve_expr(r0, e) ==
  Bind(r0, LAMBDA r :
    CASE e.t = "Variable" ->
           IF r.scopes # <<>>
             THEN IF read_in_own_initializer(r, e.name)
                    THEN ResolverErr(r, ErrOwnInitializer)
                    ELSE resolve_local(r, e.id, e.name)
             ELSE r
      [] e.t = "Assign" ->
           Bind(resolve_expr(r, e.value), LAMBDA r1 :
             IF r1.err # "" THEN r1 ELSE resolve_local(r1, e.id, e.name))
      [] e.t \in {"Binary", "Logical"} ->
           Bind(resolve_expr(r, e.left), LAMBDA r1 :
             IF r1.err # "" THEN r1 ELSE resolve_expr(r1, e.right))
      [] e.t = "Grouping" -> resolve_expr(r, e.expr)
      [] e.t = "Literal" -> r
      [] e.t = "Unary" -> resolve_expr(r, e.right)
      [] OTHER -> resolve_other_expr(r, e))

\* The check of Stmt::Return against the function-kind marker.
return_outside_function(r) == r.current_function = "NONE"

\* The body of the loop over the parameters: `declare(param)?; define(param)`.
declare_param(r, param) ==
  Bind(declare(r, param), LAMBDA r1 : IF r1.err # "" THEN r1 ELSE define(r1, param))

\* The iterations of the loop for params[lo..hi], up to the first Err.
RECURSIVE declare_params_range(_, _, _, _)
declare_params_range(r, params, lo, hi) ==
  IF lo > hi \/ r.err # "" THEN r
  ELSE IF lo = hi THEN declare_param(r, params[lo])
  ELSE Bind(declare_params_range(r, params, lo, (lo + hi) \div 2), LAMBDA r1 :
         declare_params_range(r1, params, (lo + hi) \div 2 + 1, hi))

\* for param in params { declare(param)?; define(param) }, from params[i].
declare_params(r, params, i) == declare_params_range(r, params, i, Len(params))

RECURSIVE resolve_stmt(_, _)
RECURSIVE resolve_statements_from(_, _, _)
RECURSIVE resolve_function(_, _, _, _)

resolve_statements_from(r, stmts, i) ==
  IF i > Len(stmts) THEN r
  ELSE Bind(resolve_stmt(r, stmts[i]), LAMBDA r1 :
         IF r1.err # "" THEN r1 ELSE resolve_statements_from(r1, stmts, i + 1))

resolve_statements(r, stmts) == resolve_statements_from(r, stmts, 1)

\* resolve_function leaving the function-kind marker as the body had it.
resolve_function_keeps_marker(r, params, body, func_type) ==
  Bind(begin_scope([r EXCEPT !.current_function = func_type]), LAMBDA r1 :
  Bind(declare_params(r1, params, 1), LAMBDA r2 :
    IF r2.err # "" THEN r2
    ELSE Bind(resolve_statements(r2, body), LAMBDA r3 :
           IF r3.err # "" THEN r3 ELSE end_scope(r3))))

resolve_function(r, params, body, func_type) ==
  Bind(r.current_function, LAMBDA enclosing_function :
  Bind(begin_scope([r EXCEPT !.current_function = func_type]), LAMBDA r1 :
  Bind(declare_params(r1, params, 1), LAMBDA r2 :
    IF r2.err # "" THEN r2
    ELSE Bind(resolve_statements(r2, body), LAMBDA r3 :
           IF r3.err # "" THEN r3
           ELSE [end_scope(r3) EXCEPT !.current_function = enclosing_function]))))

resolve_stmt(r0, s) ==
  Bind(r0, LAMBDA r :
    CASE s.t = "Block" ->
           Bind(begin_scope(r), LAMBDA r1 :
           Bind(resolve_statements(r1, s.statements), LAMBDA r2 :
             IF r2.err # "" THEN r2 ELSE end_scope(r2)))
      [] s.t \in {"Expression", "Print"} -> resolve_expr(r, s.expr)
      [] s.t = "Var" ->
           Bind(declare(r, s.name), LAMBDA r1 :
             IF r1.err # "" THEN r1
             ELSE Bind(IF s.initializer = <<>> THEN r1
                       ELSE resolve_expr(r1, s.initializer[1]), LAMBDA r2 :
                    IF r2.err # "" THEN r2 ELSE define(r2, s.name)))
      [] s.t = "Function" ->
           Bind(declare(r, s.name), LAMBDA r1 :
             IF r1.err # "" THEN r1
             ELSE Bind(define(r1, s.name), LAMBDA r2 :
                    resolve_function(r2, s.params, s.body, "FUNCTION")))
      [] s.t = "If" ->
           Bind(resolve_expr(r, s.condition), LAMBDA r1 :
             IF r1.err # "" THEN r1
             ELSE Bind(resolve_stmt(r1, s.then_branch), LAMBDA r2 :
                    IF r2.err # "" THEN r2
                    ELSE IF s.else_branch = <<>> THEN r2
                    ELSE resolve_stmt(r2, s.else_branch[1])))
      [] s.t = "Return" ->
           IF return_outside_function(r) THEN ResolverErr(r, ErrTopLevelReturn)
           ELSE IF s.value.t = "Literal" /\ s.value.value.k = "NIL" THEN r
           ELSE resolve_expr(r, s.value)
      [] s.t = "While" ->
           Bind(resolve_expr(r, s.condition), LAMBDA r1 :
             IF r1.err # "" THEN r1 ELSE resolve_stmt(r1, s.body)))

\* -------------------------------------------------------------- Interpreter
\* The interpreter state st: the heap of environments (globals is
\* environment 1), the current environment, the standard output, the
\* number of callable allocations made, the statements executed so far and
\* the value the clock returns; blockLog and callLog record, for every
\* execute_block and every LoxFunction::call that has returned, what it
\* found and what it left: for a block the environment before and after
\* and the outcome of its statements; for a call the closure, the
\* environment the body ran under and that environment's enclosing one, the
\* closure's bindings before and after the parameters were bound, the
\* caller's environment and the one left, the outcome of the body with the
\* value it carried, and the result and value the call returned.
Globals == 1

PrintLine(text) == [src |-> "print", text |-> text]

\* The outcomes of execute and evaluate: Ok(value), Err(RuntimeError),
\* Err(ReturnValue); Diverge when the run is cut off at MaxSteps.
Ok(st, v) == [st |-> st, res |-> "Ok", value |-> v, msg |-> ""]
RuntimeError(st, message) ==
  [st |-> st, res |-> "RuntimeError", value |-> NIL, msg |-> message]
ReturnValue(st, v) == [st |-> st, res |-> "ReturnValue", value |-> v, msg |-> ""]
Diverge(st) == [st |-> st, res |-> "Diverge", value |-> NIL, msg |-> ""]

\* format!("{:?} operands must be a number(s)", operator.type_)
ErrOperands(type) == type \o " operands must be a number(s)"
\* format!("{:?} operand must be numbers or strings", operator.type_)
ErrPlusOperands == "PLUS operand must be numbers or strings"
ErrNotCallable == "Can only call functions and classes."

get_number(v) == v.k = "NUMBER"
get_string(v) == v.k = "STRING"

is_truthy(v) ==
  CASE v.k = "NIL" -> FALSE
    [] v.k = "BOOL" -> v.b # FALSE
    [] OTHER -> TRUE

\* PartialEq for ExprValue: literals structurally, callables by the address
\* of the value's allocation, a literal and a callable never.
ExprValueEq(a, b) ==
  IF IsCallable(a) THEN IsCallable(b) /\ a.rc = b.rc
  ELSE ~IsCallable(b) /\ a.k = b.k /\ a = b

Digit(d) ==
  CASE d = 0 -> "0" [] d = 1 -> "1" [] d = 2 -> "2" [] d = 3 -> "3"
    [] d = 4 -> "4" [] d = 5 -> "5" [] d = 6 -> "6" [] d = 7 -> "7"
    [] d = 8 -> "8" [] d = 9 -> "9"

RECURSIVE NatToString(_)
NatToString(n) ==
  IF n < 10 THEN Digit(n) ELSE NatToString(n \div 10) \o Digit(n % 10)

\* Literal::to_string and the callables' to_string.
stringify(v) ==
  CASE v.k = "STRING" -> v.s
    [] v.k = "NUMBER" -> IF v.n < 0 THEN "-" \o NatToString(-v.n) ELSE NatToString(v.n)
    [] v.k = "BOOL" -> IF v.b THEN "true" ELSE "false"
    [] v.k = "NIL" -> "nil"
    [] v.k = "LoxFunction" -> "<fn " \o v.declaration.name \o " >"
    [] v.k = "Clock" -> "<native fn>"

arity(f) == IF f.k = "Clock" THEN 0 ELSE Len(f.declaration.params)

\* format!("Expected {} arguments but got {}.", arity, arg_len)
ErrArity(expected, got) ==
  "Expected " \o NatToString(expected) \o " arguments but got "
    \o NatToString(got) \o "."

\* check_call refusing only a call with fewer arguments than parameters.
check_call_accepts_extra(callee, arg_len) ==
  IF ~IsCallable(callee) THEN ErrNotCallable
  ELSE IF arg_len < arity(callee) THEN ErrArity(arity(callee), arg_len)
  ELSE ""

\* Expr::Call, between the evaluation of the arguments and function.call:
\* the match on the callee value and the test of arg_len against arity().
\* The message of the RuntimeError returned, "" when the call goes ahead.
check_call(callee, arg_len) ==
  IF ~IsCallable(callee) THEN ErrNotCallable
  ELSE IF arg_len # arity(callee) THEN ErrArity(arity(callee), arg_len)
  ELSE ""

\* short_circuit never returning the left operand.
short_circuit_never(operator, left) == FALSE

\* Expr::Logical: whether the value of the left operand is returned and
\* the right operand left unevaluated.
short_circuit(operator, left) ==
  IF operator = "OR" THEN is_truthy(left) ELSE ~is_truthy(left)

\* num_left / num_right on numbers held as integers: the quotient when it
\* is an integer, and the pair kept as it is when it is not or when the
\* divisor is 0 (the f64 quotient is then a fraction, an infinity or NaN).
f64_div(a, b) ==
  LET abs(x) == IF x < 0 THEN -x ELSE x
  IN IF b # 0 /\ (abs(a) \div abs(b)) * abs(b) = abs(a)
       THEN IF (a < 0) = (b < 0) THEN abs(a) \div abs(b) ELSE -(abs(a) \div abs(b))
     ELSE [dividend |-> a, divisor |-> b]

\* plus_op turning a number next to a string into its text.
plus_op_converts(st, l, r) ==
  IF get_number(l) /\ get_number(r) THEN Ok(st, NUMBER(l.n + r.n))
  ELSE IF get_string(l) /\ get_string(r) THEN Ok(st, STRINGV(l.s \o r.s))
  ELSE IF get_string(l) /\ get_number(r) THEN Ok(st, STRINGV(l.s \o stringify(r)))
  ELSE IF get_number(l) /\ get_string(r) THEN Ok(st, STRINGV(stringify(l) \o r.s))
  ELSE RuntimeError(st, ErrPlusOperands)

\* The PLUS arm of interpret_expr_binary.
plus_op(st, l, r) ==
  IF get_number(l) /\ get_number(r) THEN Ok(st, NUMBER(l.n + r.n))
  ELSE IF get_string(l) /\ get_string(r) THEN Ok(st, STRINGV(l.s \o r.s))
  ELSE RuntimeError(st, ErrPlusOperands)

\* The operator arms of interpret_expr_binary on two evaluated operands.
binary_op(st, op, l, r) ==
  LET nums == get_number(l) /\ get_number(r)
  IN CASE op = "GREATER" ->
            IF nums THEN Ok(st, BOOL(l.n > r.n)) ELSE RuntimeError(st, ErrOperands(op))
       [] op = "GREATER_EQUAL" ->
            IF nums THEN Ok(st, BOOL(l.n >= r.n)) ELSE RuntimeError(st, ErrOperands(op))
       [] op = "LESS" ->
            IF nums THEN Ok(st, BOOL(l.n < r.n)) ELSE RuntimeError(st, ErrOperands(op))
       [] op = "LESS_EQUAL" ->
            IF nums THEN Ok(st, BOOL(l.n <= r.n)) ELSE RuntimeError(st, ErrOperands(op))
       [] op = "BANG_EQUAL" -> Ok(st, BOOL(~ExprValueEq(l, r)))
       [] op = "EQUAL_EQUAL" -> Ok(st, BOOL(ExprValueEq(l, r)))
       [] op = "MINUS" ->
            IF nums THEN Ok(st, NUMBER(l.n - r.n)) ELSE RuntimeError(st, ErrOperands(op))
       [] op = "PLUS" -> plus_op(st, l, r)
       [] op = "SLASH" ->
            IF nums THEN Ok(st, NUMBER(f64_div(l.n, r.n)))
            ELSE RuntimeError(st, ErrOperands(op))
       [] op = "STAR" ->
            IF nums THEN Ok(st, NUMBER(l.n * r.n)) ELSE RuntimeError(st, ErrOperands(op))

\* Stmt::Function: `closure: Rc::clone(&self.environment)`.  The result is
\* the heap and the environment the new function value refers to.
capture_closure(st) == [envs |-> st.envs, closure |-> st.environment]

\* call_environment taking a copy of the closure for each call.
call_environment_copy(st, f) ==
  [envs |-> Append(st.envs, st.envs[f.closure]), environment |-> Len(st.envs) + 1]

\* LoxFunction::call: `let environment = Rc::clone(&self.closure)`, the
\* environment the parameters are defined in and the body runs under.
call_environment(st, f) == [envs |-> st.envs, environment |-> f.closure]

\* `for i in 0..params.len() { environment.define(params[i], arguments[i]) }`
RECURSIVE bind_params(_, _, _, _, _)
bind_params(envs, environment, params, arguments, i) ==
  IF i > Len(params) THEN envs
  ELSE bind_params(EnvironmentDefine(envs, environment, params[i], arguments[i]),
                   environment, params, arguments, i + 1)

\* block_failed returning the error without the assignment.
block_failed_keeps(st, previous) == st

\* execute_block, error path: `self.environment = previous; return Err(e)`.
block_failed(st, previous) == [st EXCEPT !.environment = previous]

\* execute_block, normal path: `self.environment = previous; Ok(())`.
block_completed(st, previous) == [st EXCEPT !.environment = previous]

\* call_result without the arm for Err(ReturnValue).
call_result_leaks(r) ==
  CASE r.res = "Ok" -> Ok(r.st, NIL)
    [] OTHER -> r

\* LoxFunction::call: the match on what execute_block returned.
call_result(r) ==
  CASE r.res = "ReturnValue" -> Ok(r.st, r.value)
    [] r.res = "Ok" -> Ok(r.st, NIL)
    [] OTHER -> r

RECURSIVE evaluate(_, _)
RECURSIVE evaluate_arguments(_, _, _, _)
RECURSIVE execute(_, _)
RECURSIVE execute_statements(_, _, _)
RECURSIVE execute_block(_, _, _)
RECURSIVE execute_while(_, _)
RECURSIVE LoxFunctionCall(_, _, _)

\* evaluate_arguments evaluating every argument a second time.
evaluate_arguments_twice(st, arguments, i, acc) ==
  IF i > Len(arguments) THEN [r |-> Ok(st, NIL), args |-> acc]
  ELSE Bind(evaluate(st, arguments[i]), LAMBDA first :
         IF first.res # "Ok" THEN [r |-> first, args |-> acc]
         ELSE Bind(evaluate(first.st, arguments[i]), LAMBDA r :
                IF r.res # "Ok" THEN [r |-> r, args |-> acc]
                ELSE evaluate_arguments(r.st, arguments, i + 1, Append(acc, r.value))))

\* `for argument in arguments { eval_arguments.push(self.evaluate(argument)?) }`
evaluate_arguments(st, arguments, i, acc) ==
  IF i > Len(arguments) THEN [r |-> Ok(st, NIL), args |-> acc]
  ELSE Bind(evaluate(st, arguments[i]), LAMBDA r :
         IF r.res # "Ok" THEN [r |-> r, args |-> acc]
         ELSE evaluate_arguments(r.st, arguments, i + 1, Append(acc, r.value)))

evaluate(st0, e) ==
  Bind(st0, LAMBDA st :
    CASE e.t = "Assign" ->
           Bind(evaluate(st, e.value), LAMBDA v :
             IF v.res # "Ok" THEN v
             ELSE Bind(EnvironmentAssign(v.st.envs, v.st.environment, e.name, v.value),
                       LAMBDA a :
                    IF ~a.ok THEN RuntimeError(v.st, a.msg)
                    ELSE Ok([v.st EXCEPT !.envs = a.envs], v.value)))
      [] e.t = "Binary" ->
           Bind(evaluate(st, e.left), LAMBDA l :
             IF l.res # "Ok" THEN l
             ELSE Bind(evaluate(l.st, e.right), LAMBDA r :
                    IF r.res # "Ok" THEN r
                    ELSE binary_op(r.st, e.operator, l.value, r.value)))
      [] e.t = "Call" ->
           Bind(evaluate(st, e.callee), LAMBDA callee :
             IF callee.res # "Ok" THEN callee
             ELSE Bind(evaluate_arguments(callee.st, e.arguments, 1, <<>>), LAMBDA args :
                    IF args.r.res # "Ok" THEN args.r
                    ELSE Bind(check_call(callee.value, Len(e.arguments)), LAMBDA err :
                      IF err # "" THEN RuntimeError(args.r.st, err)
                      ELSE IF callee.value.k = "Clock"
                        THEN Ok(args.r.st, NUMBER(args.r.st.clock))
                      ELSE LoxFunctionCall(args.r.st, callee.value, args.args))))
      [] e.t = "Grouping" -> evaluate(st, e.expr)
      [] e.t = "Literal" -> Ok(st, e.value)
      [] e.t = "Logical" ->
           Bind(evaluate(st, e.left), LAMBDA l :
             IF l.res # "Ok" THEN l
             ELSE IF short_circuit(e.operator, l.value) THEN l
             ELSE evaluate(l.st, e.right))
      [] e.t = "Unary" ->
           Bind(evaluate(st, e.right), LAMBDA r :
             IF r.res # "Ok" THEN r
             ELSE IF e.operator = "MINUS"
               THEN IF get_number(r.value) THEN Ok(r.st, NUMBER(-r.value.n))
                    ELSE RuntimeError(r.st, ErrOperands(e.operator))
               ELSE Ok(r.st, BOOL(~is_truthy(r.value))))
      [] e.t = "Variable" ->
           Bind(EnvironmentGet(st.envs, st.environment, e.name), LAMBDA g :
             IF g.ok THEN Ok(st, g.value) ELSE RuntimeError(st, g.msg)))

LoxFunctionCall(st0, f, arguments) ==
  Bind(st0, LAMBDA st :
  Bind(call_environment(st, f), LAMBDA c :
  Bind(bind_params(c.envs, c.environment, f.declaration.params, arguments, 1),
       LAMBDA envs1 :
  Bind(execute_block([st EXCEPT !.envs = envs1], f.declaration.body, c.environment),
       LAMBDA r :
  Bind(call_result(r), LAMBDA cr :
    [cr EXCEPT !.st.callLog =
       Append(@, [closure |-> f.closure, environment |-> c.environment,
                  enclosing |-> envs1[c.environment].enclosing,
                  before |-> c.envs[f.closure].values,
                  bound |-> envs1[f.closure].values,
                  caller |-> st.environment, after |-> r.st.environment,
                  outcome |-> r.res, raised |-> r.value,
                  result |-> cr.res, returned |-> cr.value])])))))

\* execute_statements going on to the next statement after a RuntimeError.
execute_statements_continues(st, statements, i) ==
  IF i > Len(statements) THEN Ok(st, NIL)
  ELSE Bind(execute(st, statements[i]), LAMBDA r :
         IF r.res = "ReturnValue" THEN r
         ELSE execute_statements(r.st, statements, i + 1))

\* `for statement in statements { self.execute(statement)?; }`
execute_statements(st, statements, i) ==
  IF i > Len(statements) THEN Ok(st, NIL)
  ELSE Bind(execute(st, statements[i]), LAMBDA r :
         IF r.res # "Ok" THEN r ELSE execute_statements(r.st, statements, i + 1))

execute_block(st0, statements, environment) ==
  Bind(st0, LAMBDA st :
  Bind(st.environment, LAMBDA previous :
  Bind(execute_statements([st EXCEPT !.environment = environment], statements, 1),
       LAMBDA r :
  Bind(IF r.res # "Ok" THEN block_failed(r.st, previous)
       ELSE block_completed(r.st, previous), LAMBDA st1 :
    [r EXCEPT !.st =
       [st1 EXCEPT !.blockLog =
          Append(@, [previous |-> previous, after |-> st1.environment,
                     outcome |-> r.res])]]))))

\* execute_while taking the return signal of its body for the end of the
\* loop only.
execute_while_after_return(st, s) ==
  Bind(evaluate(st, s.condition), LAMBDA c :
    IF c.res # "Ok" THEN c
    ELSE IF ~is_truthy(c.value) THEN Ok(c.st, NIL)
    ELSE Bind(execute(c.st, s.body), LAMBDA b :
           IF b.res = "ReturnValue" THEN Ok(b.st, NIL)
           ELSE IF b.res # "Ok" THEN b ELSE execute_while(b.st, s)))

\* Stmt::While: `while is_truthy(evaluate(condition)?) { execute(body)?; }`
execute_while(st, s) ==
  Bind(evaluate(st, s.condition), LAMBDA c :
    IF c.res # "Ok" THEN c
    ELSE IF ~is_truthy(c.value) THEN Ok(c.st, NIL)
    ELSE Bind(execute(c.st, s.body), LAMBDA b :
           IF b.res # "Ok" THEN b ELSE execute_while(b.st, s)))

execute(st0, s) ==
  IF st0.steps >= MaxSteps THEN Diverge(st0)
  ELSE
  Bind([st0 EXCEPT !.steps = @ + 1], LAMBDA st :
    CASE s.t = "Block" ->
           execute_block([st EXCEPT !.envs = EnvironmentNew(@, st.environment)],
                         s.statements, Len(st.envs) + 1)
      [] s.t = "Expression" ->
           Bind(evaluate(st, s.expr), LAMBDA r :
             IF r.res # "Ok" THEN r ELSE Ok(r.st, NIL))
      [] s.t = "Function" ->
           Bind(capture_closure(st), LAMBDA c :
             Ok([st EXCEPT !.envs = EnvironmentDefine(c.envs, st.environment, s.name,
                                      LoxFunction(s, c.closure, st.allocs + 1)),
                           !.allocs = @ + 1], NIL))
      [] s.t = "If" ->
           Bind(evaluate(st, s.condition), LAMBDA c :
             IF c.res # "Ok" THEN c
             ELSE IF is_truthy(c.value) THEN execute(c.st, s.then_branch)
             ELSE IF s.else_branch # <<>> THEN execute(c.st, s.else_branch[1])
             ELSE Ok(c.st, NIL))
      [] s.t = "Print" ->
           Bind(evaluate(st, s.expr), LAMBDA r :
             IF r.res # "Ok" THEN r
             ELSE Ok([r.st EXCEPT !.out = Append(@, PrintLine(stringify(r.value)))],
                     NIL))
      [] s.t = "Return" ->
           Bind(evaluate(st, s.value), LAMBDA r :
             IF r.res # "Ok" THEN r ELSE ReturnValue(r.st, r.value))
      [] s.t = "Var" ->
           Bind(IF s.initializer = <<>> THEN Ok(st, NIL)
                ELSE evaluate(st, s.initializer[1]), LAMBDA r :
             IF r.res # "Ok" THEN r
             ELSE Ok([r.st EXCEPT !.envs = EnvironmentDefine(@, r.st.environment,
                                                             s.name, r.value)], NIL))
      [] s.t = "While" -> execute_while(st, s))

\* ------------------------------------------------------------------ Scanner
\* A byte is a string of one character.  The scanner state sc: the source
\* bytes, the tokens pushed, start and current (0-based, as in the code), the
\* line, and the Result of the last scan_token: ok, or the ScanError's line
\* and message.  A token's lexeme is the bytes `text.to_vec()`, which
\* Token::new holds as a String of the same bytes.
ScannerNew(bytes) ==
  [source |-> bytes, tokens |-> <<>>, start |-> 0, current |-> 0, line |-> 1,
   ok |-> TRUE, err |-> [line |-> 0, message |-> ""]]

TokenNew(type_, lexeme, literal, line) ==
  [type |-> type_, lexeme |-> lexeme, literal |-> literal, line |-> line]

ScanError(sc, message) ==
  [sc EXCEPT !.ok = FALSE, !.err = [line |-> sc.line, message |-> message]]

keywords ==
  ("and" :> "AND") @@ ("class" :> "CLASS") @@ ("else" :> "ELSE")
    @@ ("false" :> "FALSE") @@ ("for" :> "FOR") @@ ("fun" :> "FUN")
    @@ ("if" :> "IF") @@ ("nil" :> "NIL") @@ ("or" :> "OR")
    @@ ("print" :> "PRINT") @@ ("return" :> "RETURN") @@ ("super" :> "SUPER")
    @@ ("this" :> "THIS") @@ ("true" :> "TRUE") @@ ("var" :> "VAR")
    @@ ("while" :> "WHILE")

\* The byte 0 that peek returns at the end of the source.
NUL == "NUL"

Digits == {"0", "1", "2", "3", "4", "5", "6", "7", "8", "9"}

Letters ==
  {"a", "b", "c", "d", "e", "f", "g", "h", "i", "j", "k", "l", "m", "n", "o", "p",
   "q", "r", "s", "t", "u", "v", "w", "x", "y", "z",
   "A", "B", "C", "D", "E", "F", "G", "H", "I", "J", "K", "L", "M", "N", "O", "P",
   "Q", "R", "S", "T", "U", "V", "W", "X", "Y", "Z"}

is_digit(c) == c \in Digits

is_ascii_identifier(c) == c \in Letters \cup Digits \cup {"_"}

\* str::from_utf8(bytes).to_string(): the String of the bytes.
RECURSIVE from_utf8(_)
from_utf8(bytes) ==
  IF bytes = <<>> THEN "" ELSE bytes[1] \o from_utf8(Tail(bytes))

\* source[from..to], 0-based and half-open.
Slice(bytes, from, to) == SubSeq(bytes, from + 1, to)

Scanner_is_at_end(sc) == sc.current >= Len(sc.source)

Scanner_peek(sc) ==
  IF Scanner_is_at_end(sc) THEN NUL ELSE sc.source[sc.current + 1]

peek_next(sc) ==
  IF sc.current + 1 >= Len(sc.source) THEN NUL ELSE sc.source[sc.current + 2]

\* advance: the scanner after `self.current += 1` (the byte returned is
\* source[current] of the scanner before).
Scanner_advance(sc) == [sc EXCEPT !.current = @ + 1]

\* match_!: whether the next byte is the expected one.
match_(sc, expected) ==
  ~Scanner_is_at_end(sc) /\ sc.source[sc.current + 1] = expected

\* add_token_literal taking the text from the first byte of the source.
add_token_literal_whole(sc, type_, literal) ==
  [sc EXCEPT !.tokens =
     Append(@, TokenNew(type_, Slice(sc.source, 0, sc.current), literal, sc.line))]

\* `let text = &self.source[self.start..self.current]` and the push.
add_token_literal(sc, type_, literal) ==
  [sc EXCEPT !.tokens =
     Append(@, TokenNew(type_, Slice(sc.source, sc.start, sc.current), literal,
                        sc.line))]

add_token(sc, type_) == add_token_literal(sc, type_, NIL)

\* add_token of one, or when the next byte is `=` of the other type.
add_token_matching(sc, two, one) ==
  IF match_(sc, "=") THEN add_token(Scanner_advance(sc), two)
  ELSE add_token(sc, one)

\* `while self.peek() != b'\n' && !self.is_at_end() { self.advance(); }`
RECURSIVE comment_loop(_)
comment_loop(sc) ==
  IF Scanner_peek(sc) # "\n" /\ ~Scanner_is_at_end(sc)
    THEN comment_loop(Scanner_advance(sc))
  ELSE sc

\* The loop of string: to the closing quote or the end, counting lines.
RECURSIVE string_loop(_)
string_loop(sc) ==
  IF Scanner_peek(sc) # "\"" /\ ~Scanner_is_at_end(sc)
    THEN string_loop(Scanner_advance(
           IF Scanner_peek(sc) = "\n" THEN [sc EXCEPT !.line = @ + 1] ELSE sc))
  ELSE sc

\* string accepting the end of the source as the closing quote.
string_closed_by_end(sc0) ==
  LET sc == string_loop(sc0)
      closed == IF Scanner_is_at_end(sc) THEN sc ELSE Scanner_advance(sc)
      last == IF Scanner_is_at_end(sc) THEN closed.current ELSE closed.current - 1
  IN add_token_literal(closed, "STRING",
       STRINGV(from_utf8(Slice(closed.source, closed.start + 1, last))))

string(sc0) ==
  LET sc == string_loop(sc0)
  IN IF Scanner_is_at_end(sc) THEN ScanError(sc, "Unterminated string")
     ELSE LET closed == Scanner_advance(sc)
          IN add_token_literal(closed, "STRING",
               STRINGV(from_utf8(Slice(closed.source, closed.start + 1,
                                       closed.current - 1))))

RECURSIVE digits_loop(_)
digits_loop(sc) ==
  IF is_digit(Scanner_peek(sc)) THEN digits_loop(Scanner_advance(sc)) ELSE sc

DigitValue(c) ==
  CASE c = "0" -> 0 [] c = "1" -> 1 [] c = "2" -> 2 [] c = "3" -> 3 [] c = "4" -> 4
    [] c = "5" -> 5 [] c = "6" -> 6 [] c = "7" -> 7 [] c = "8" -> 8 [] c = "9" -> 9

RECURSIVE DigitsValue(_)
DigitsValue(text) ==
  IF text = <<>> THEN 0
  ELSE 10 * DigitsValue(SubSeq(text, 1, Len(text) - 1)) + DigitValue(text[Len(text)])

RECURSIVE StripZeros(_)
StripZeros(text) ==
  IF text # <<>> /\ text[Len(text)] = "0" THEN StripZeros(SubSeq(text, 1, Len(text) - 1))
  ELSE text

RECURSIVE Pow10(_)
Pow10(k) == IF k = 0 THEN 1 ELSE 10 * Pow10(k - 1)

\* str::parse::<f64> of digits with an optional fraction: the integer, or
\* for a fraction that is not 0 the decimal as dividend and divisor.
parse_f64(text) ==
  LET dots == {i \in 1..Len(text) : text[i] = "."}
  IN IF dots = {} THEN DigitsValue(text)
     ELSE LET dot == CHOOSE i \in dots : TRUE
              whole == SubSeq(text, 1, dot - 1)
              fraction == StripZeros(SubSeq(text, dot + 1, Len(text)))
          IN IF fraction = <<>> THEN DigitsValue(whole)
             ELSE [dividend |-> DigitsValue(whole \o fraction),
                   divisor |-> Pow10(Len(fraction))]

number(sc0) ==
  LET whole == digits_loop(sc0)
      sc == IF Scanner_peek(whole) = "." /\ is_digit(peek_next(whole))
              THEN digits_loop(Scanner_advance(whole))
            ELSE whole
  IN add_token_literal(sc, "NUMBER",
       NUMBER(parse_f64(Slice(sc.source, sc.start, sc.current))))

RECURSIVE identifier_loop(_)
identifier_loop(sc) ==
  IF is_ascii_identifier(Scanner_peek(sc)) THEN identifier_loop(Scanner_advance(sc))
  ELSE sc

identifier(sc0) ==
  LET sc == identifier_loop(sc0)
      text == from_utf8(Slice(sc.source, sc.start, sc.current))
  IN add_token(sc, IF text \in DOMAIN keywords THEN keywords[text] ELSE "IDENTIFIER")

\* unexpected leaving the byte out, as white space is.
unexpected_skipped(sc) == sc

\* scan_token, the arm for every other byte.
unexpected(sc) == ScanError(sc, "Unexpected character.")

\* scan_tokens after its loop: the EOF token.
push_eof(sc) == [sc EXCEPT !.tokens = Append(@, TokenNew("EOF", <<>>, NIL, sc.line))]

\* scan_token: `let c = self.advance(); match c { .. }`
scan_token(sc0) ==
  LET c == sc0.source[sc0.current + 1]
      sc == Scanner_advance(sc0)
  IN CASE c = "(" -> add_token(sc, "LEFT_PAREN")
       [] c = ")" -> add_token(sc, "RIGHT_PAREN")
       [] c = "{" -> add_token(sc, "LEFT_BRACE")
       [] c = "}" -> add_token(sc, "RIGHT_BRACE")
       [] c = "," -> add_token(sc, "COMMA")
       [] c = "." -> add_token(sc, "DOT")
       [] c = "-" -> add_token(sc, "MINUS")
       [] c = "+" -> add_token(sc, "PLUS")
       [] c = ";" -> add_token(sc, "SEMICOLON")
       [] c = "*" -> add_token(sc, "STAR")
       [] c = "!" -> add_token_matching(sc, "BANG_EQUAL", "BANG")
       [] c = "=" -> add_token_matching(sc, "EQUAL_EQUAL", "EQUAL")
       [] c = "<" -> add_token_matching(sc, "LESS_EQUAL", "LESS")
       [] c = ">" -> add_token_matching(sc, "GREATER_EQUAL", "GREATER")
       [] c = "/" -> IF match_(sc, "/") THEN comment_loop(Scanner_advance(sc))
                     ELSE add_token(sc, "SLASH")
       [] c \in {" ", "\r", "\t"} -> sc
       [] c = "\n" -> [sc EXCEPT !.line = @ + 1]
       [] c = "\"" -> string(sc)
       [] is_digit(c) -> number(sc)
       [] c \in Letters \cup {"_"} -> identifier(sc)
       [] OTHER -> unexpected(sc)

\* scan_tokens: the loop, left by the first Err, and the EOF token.
RECURSIVE scan_tokens(_)
scan_tokens(sc) ==
  IF ~Scanner_is_at_end(sc)
    THEN Bind(scan_token([sc EXCEPT !.start = sc.current]), LAMBDA next :
           IF next.ok THEN scan_tokens(next) ELSE next)
  ELSE push_eof(sc)

\* ------------------------------------------------------------------- Parser
\* A token: its type, its lexeme and its literal value (nil but for NUMBER
\* and STRING).  The parser state p: the tokens (the last one is EOF), the
\* index of the current token and the errors reported through Lox::error
\* so far.  A rule returns Ok(node) or Err(ParseError), with the parser
\* state it left.
MaxParameters == 255
MaxArguments == 255

Token(type, lexeme, literal) == [type |-> type, lexeme |-> lexeme, literal |-> literal]

\* panicked: previous() was evaluated while the cursor was at the first
\* token (`self.tokens[self.current - 1]` with current = 0).
ParserNew(tokens, reports) ==
  [tokens |-> tokens, current |-> 1, reports |-> reports, panicked |-> FALSE]

Parsed(p, node) == [ok |-> TRUE, p |-> p, node |-> node, err |-> ""]
ParseError(p, message) == [ok |-> FALSE, p |-> p, node |-> NIL, err |-> message]

\* Lox::report: the line written to standard error (had_error is set when
\* one has been written).
Report(by, message) == [src |-> by, text |-> message]

\* `self.lox.error(Parser::error(..))`: a report that does not end the rule.
lox_error(p, message) == [p EXCEPT !.reports = Append(@, Report("parser", message))]

peek(p) == p.tokens[p.current]
previous(p) == p.tokens[p.current - 1]
is_at_end(p) == p.current > Len(p.tokens) \/ peek(p).type = "EOF"
\* advance moving the cursor whether or not it is at the end.
advance_unchecked(p) == [p EXCEPT !.current = @ + 1]

\* `if !self.is_at_end() { self.current += 1; } self.previous()`
advance(p) ==
  IF ~is_at_end(p) THEN [p EXCEPT !.current = @ + 1]
  ELSE IF p.current = 1 THEN [p EXCEPT !.panicked = TRUE]
  ELSE p
check(p, types) == ~is_at_end(p) /\ peek(p).type \in types
consume(p, types, message) ==
  IF check(p, types) THEN Parsed(advance(p), peek(p)) ELSE ParseError(p, message)

RECURSIVE synchronize_loop(_)
synchronize_loop(p) ==
  IF p.panicked \/ is_at_end(p) THEN p
  ELSE IF previous(p).type = "SEMICOLON" THEN p
  ELSE IF peek(p).type \in {"CLASS", "FUN", "VAR", "FOR", "IF", "WHILE", "PRINT", "RETURN"}
    THEN p
  ELSE synchronize_loop(advance(p))

synchronize(p) == synchronize_loop(advance(p))

RECURSIVE expression(_)
RECURSIVE assignment(_)
RECURSIVE or(_)
RECURSIVE or_loop(_, _)
RECURSIVE and(_)
RECURSIVE and_loop(_, _)
RECURSIVE equality(_)
RECURSIVE equality_loop(_, _)
RECURSIVE comparison(_)
RECURSIVE comparison_loop(_, _)
RECURSIVE term(_)
RECURSIVE term_loop(_, _)
RECURSIVE factor(_)
RECURSIVE factor_loop(_, _)
RECURSIVE unary(_)
RECURSIVE call(_)
RECURSIVE call_loop(_, _)
RECURSIVE finish_call(_, _)
RECURSIVE arguments_loop(_, _)
RECURSIVE primary(_)

expression(p) == assignment(p)

assignment(p) ==
  Bind(or(p), LAMBDA e :
    IF ~e.ok THEN e
    ELSE IF check(e.p, {"EQUAL"})
      THEN Bind(assignment(advance(e.p)), LAMBDA v :
             IF ~v.ok THEN v
             ELSE IF e.node.t = "Variable"
               THEN Parsed(v.p, Assign(e.node.id, e.node.name, v.node))
             ELSE Parsed(lox_error(v.p, "Invalid assignment target."), e.node))
    ELSE e)

or_loop(p, expr) ==
  IF check(p, {"OR"})
    THEN Bind(and(advance(p)), LAMBDA right :
           IF ~right.ok THEN right
           ELSE or_loop(right.p, Logical(expr, peek(p).type, right.node)))
    ELSE Parsed(p, expr)

or(p) == Bind(and(p), LAMBDA e : IF ~e.ok THEN e ELSE or_loop(e.p, e.node))

and_loop(p, expr) ==
  IF check(p, {"AND"})
    THEN Bind(equality(advance(p)), LAMBDA right :
           IF ~right.ok THEN right
           ELSE and_loop(right.p, Logical(expr, peek(p).type, right.node)))
    ELSE Parsed(p, expr)

and(p) == Bind(equality(p), LAMBDA e : IF ~e.ok THEN e ELSE and_loop(e.p, e.node))

equality_loop(p, expr) ==
  IF check(p, {"BANG_EQUAL", "EQUAL_EQUAL"})
    THEN Bind(comparison(advance(p)), LAMBDA right :
           IF ~right.ok THEN right
           ELSE equality_loop(right.p, Binary(expr, peek(p).type, right.node)))
    ELSE Parsed(p, expr)

equality(p) ==
  Bind(comparison(p), LAMBDA e : IF ~e.ok THEN e ELSE equality_loop(e.p, e.node))

comparison_loop(p, expr) ==
  IF check(p, {"GREATER", "GREATER_EQUAL", "LESS", "LESS_EQUAL"})
    THEN Bind(term(advance(p)), LAMBDA right :
           IF ~right.ok THEN right
           ELSE comparison_loop(right.p, Binary(expr, peek(p).type, right.node)))
    ELSE Parsed(p, expr)

comparison(p) ==
  Bind(term(p), LAMBDA e : IF ~e.ok THEN e ELSE comparison_loop(e.p, e.node))

term_loop(p, expr) ==
  IF check(p, {"MINUS", "PLUS"})
    THEN Bind(factor(advance(p)), LAMBDA right :
           IF ~right.ok THEN right
           ELSE term_loop(right.p, Binary(expr, peek(p).type, right.node)))
    ELSE Parsed(p, expr)

term(p) == Bind(factor(p), LAMBDA e : IF ~e.ok THEN e ELSE term_loop(e.p, e.node))

factor_loop(p, expr) ==
  IF check(p, {"SLASH", "STAR"})
    THEN Bind(unary(advance(p)), LAMBDA right :
           IF ~right.ok THEN right
           ELSE factor_loop(right.p, Binary(expr, peek(p).type, right.node)))
    ELSE Parsed(p, expr)

factor(p) == Bind(unary(p), LAMBDA e : IF ~e.ok THEN e ELSE factor_loop(e.p, e.node))

unary(p) ==
  IF check(p, {"BANG", "MINUS"})
    THEN Bind(unary(advance(p)), LAMBDA right :
           IF ~right.ok THEN right
           ELSE Parsed(right.p, Unary(peek(p).type, right.node)))
    ELSE call(p)

\* A loop that collects a list: the rule's result so far (the list is its
\* node) and whether the loop is still running.
Looping(r) == [r |-> r, more |-> TRUE]
Left(r) == [r |-> r, more |-> FALSE]

\* One iteration of the loop of finish_call: one argument, and `break`
\* unless a comma follows.
\* too_many reporting the last entry the cap allows.
too_many_at_cap(len, cap) == len >= cap - 1

\* `arguments.len() >= 255`, `parameters.len() >= 255`.
too_many(len, cap) == len >= cap

arguments_step(l) ==
  IF ~l.more THEN l
  ELSE
  Bind(IF too_many(Len(l.r.node), MaxArguments)
         THEN lox_error(l.r.p, "Can't have more than 255 arguments")
         ELSE l.r.p, LAMBDA p1 :
  Bind(expression(p1), LAMBDA e :
    IF ~e.ok THEN Left(e)
    ELSE IF check(e.p, {"COMMA"})
      THEN Looping(Parsed(advance(e.p), Append(l.r.node, e.node)))
    ELSE Left(Parsed(e.p, Append(l.r.node, e.node)))))

\* n iterations of the loop of finish_call, fewer if it is left earlier.
arguments_loop(l, n) ==
  IF n = 0 \/ ~l.more THEN l
  ELSE IF n = 1 THEN arguments_step(l)
  ELSE Bind(arguments_loop(l, n \div 2), LAMBDA h :
         arguments_loop(h, n - n \div 2))

\* Every iteration of the loop takes a token, so the loop is left within
\* as many iterations as there are tokens.
finish_call(p, callee) ==
  Bind(IF ~check(p, {"RIGHT_PAREN"})
         THEN arguments_loop(Looping(Parsed(p, <<>>)), Len(p.tokens)).r
       ELSE Parsed(p, <<>>), LAMBDA a :
    IF ~a.ok THEN a
    ELSE Bind(consume(a.p, {"RIGHT_PAREN"}, "Expect ')' after arguments."), LAMBDA c :
           IF ~c.ok THEN c ELSE Parsed(c.p, CallExpr(callee, a.node))))

call_loop(p, expr) ==
  IF check(p, {"LEFT_PAREN"})
    THEN Bind(finish_call(advance(p), expr), LAMBDA c :
           IF ~c.ok THEN c ELSE call_loop(c.p, c.node))
    ELSE Parsed(p, expr)

call(p) == Bind(primary(p), LAMBDA e : IF ~e.ok THEN e ELSE call_loop(e.p, e.node))

\* A Variable node is identified by the position of its name token.
primary(p) ==
  CASE check(p, {"FALSE"}) -> Parsed(advance(p), Literal(BOOL(FALSE)))
    [] check(p, {"TRUE"}) -> Parsed(advance(p), Literal(BOOL(TRUE)))
    [] check(p, {"NIL"}) -> Parsed(advance(p), Literal(NIL))
    [] check(p, {"NUMBER", "STRING"}) -> Parsed(advance(p), Literal(peek(p).literal))
    [] check(p, {"IDENTIFIER"}) ->
         Parsed(advance(p), Variable(p.current, peek(p).lexeme))
    [] check(p, {"LEFT_PAREN"}) ->
         Bind(expression(advance(p)), LAMBDA e :
           IF ~e.ok THEN e
           ELSE Bind(consume(e.p, {"RIGHT_PAREN"}, "Expect ')' after expression."),
                     LAMBDA c :
                  IF ~c.ok THEN c ELSE Parsed(c.p, Grouping(e.node))))
    [] OTHER -> ParseError(p, "Expect expression")

RECURSIVE declaration(_)
RECURSIVE statement(_)
RECURSIVE for_statement(_)
RECURSIVE if_statement(_)
RECURSIVE while_statement(_)
RECURSIVE function(_, _)
RECURSIVE parameters_loop(_, _)
RECURSIVE block(_)
RECURSIVE block_loop(_, _)

expression_statement(p) ==
  Bind(expression(p), LAMBDA e :
    IF ~e.ok THEN e
    ELSE Bind(consume(e.p, {"SEMICOLON"}, "Expect ';' after expression."), LAMBDA c :
           IF ~c.ok THEN c ELSE Parsed(c.p, Expression(e.node))))

print_statement(p) ==
  Bind(expression(p), LAMBDA e :
    IF ~e.ok THEN e
    ELSE Bind(consume(e.p, {"SEMICOLON"}, "Expect ';' after value."), LAMBDA c :
           IF ~c.ok THEN c ELSE Parsed(c.p, PrintStmt(e.node))))

return_statement(p) ==
  Bind(IF ~check(p, {"SEMICOLON"}) THEN expression(p)
       ELSE Parsed(p, Literal(NIL)), LAMBDA e :
    IF ~e.ok THEN e
    ELSE Bind(consume(e.p, {"SEMICOLON"}, "Expect ';' after return value."), LAMBDA c :
           IF ~c.ok THEN c ELSE Parsed(c.p, Return(e.node))))

var_declaration(p) ==
  Bind(consume(p, {"IDENTIFIER"}, "Expect variable name."), LAMBDA name :
    IF ~name.ok THEN name
    ELSE Bind(IF check(name.p, {"EQUAL"}) THEN expression(advance(name.p))
              ELSE Parsed(name.p, NIL), LAMBDA e :
           IF ~e.ok THEN e
           ELSE Bind(consume(e.p, {"SEMICOLON"},
                             "Expect ';' after variable declaration."), LAMBDA c :
                  IF ~c.ok THEN c
                  ELSE Parsed(c.p, Var(name.node.lexeme,
                                       IF check(name.p, {"EQUAL"}) THEN <<e.node>>
                                       ELSE <<>>)))))

\* for_statement building the loop with the increment ahead of the body.
for_desugar_increment_first(initializer, condition, increment, body) ==
  LET body1 == IF increment # <<>>
                 THEN Block(<< Expression(increment[1]), body >>) ELSE body
      loop == While(IF condition = <<>> THEN Literal(BOOL(TRUE)) ELSE condition[1],
                    body1)
  IN IF initializer # <<>> THEN Block(<< initializer[1], loop >>) ELSE loop

\* for_statement, from `if let Some(increment)`: the statement built from
\* the three optional clauses and the body.
for_desugar(initializer, condition, increment, body) ==
  LET body1 == IF increment # <<>>
                 THEN Block(<< body, Expression(increment[1]) >>) ELSE body
      loop == While(IF condition = <<>> THEN Literal(BOOL(TRUE)) ELSE condition[1],
                    body1)
  IN IF initializer # <<>> THEN Block(<< initializer[1], loop >>) ELSE loop

for_statement(p) ==
  Bind(consume(p, {"LEFT_PAREN"}, "Expect '(' after 'for'."), LAMBDA l :
    IF ~l.ok THEN l
    ELSE
    Bind(IF check(l.p, {"SEMICOLON"}) THEN Parsed(advance(l.p), NIL)
         ELSE IF check(l.p, {"VAR"}) THEN var_declaration(advance(l.p))
         ELSE expression_statement(l.p), LAMBDA initializer :
      IF ~initializer.ok THEN initializer
      ELSE
      Bind(IF ~check(initializer.p, {"SEMICOLON"}) THEN expression(initializer.p)
           ELSE Parsed(initializer.p, NIL), LAMBDA condition :
        IF ~condition.ok THEN condition
        ELSE
        Bind(consume(condition.p, {"SEMICOLON"}, "Expect ';' after loop condition"),
             LAMBDA s :
          IF ~s.ok THEN s
          ELSE
          Bind(IF ~check(s.p, {"RIGHT_PAREN"}) THEN expression(s.p)
               ELSE Parsed(s.p, NIL), LAMBDA increment :
            IF ~increment.ok THEN increment
            ELSE
            Bind(consume(increment.p, {"RIGHT_PAREN"}, "Expect ')' after for clauses."),
                 LAMBDA r :
              IF ~r.ok THEN r
              ELSE
              Bind(statement(r.p), LAMBDA body :
                IF ~body.ok THEN body
                ELSE Parsed(body.p,
                       for_desugar(
                         IF check(l.p, {"SEMICOLON"}) THEN <<>> ELSE <<initializer.node>>,
                         IF check(initializer.p, {"SEMICOLON"}) THEN <<>>
                         ELSE <<condition.node>>,
                         IF check(s.p, {"RIGHT_PAREN"}) THEN <<>> ELSE <<increment.node>>,
                         body.node)))))))))

if_statement(p) ==
  Bind(consume(p, {"LEFT_PAREN"}, "Expect '(' after 'if'."), LAMBDA l :
    IF ~l.ok THEN l
    ELSE
    Bind(expression(l.p), LAMBDA condition :
      IF ~condition.ok THEN condition
      ELSE
      Bind(consume(condition.p, {"RIGHT_PAREN"}, "Expect ')' after 'if'."), LAMBDA r :
        IF ~r.ok THEN r
        ELSE
        Bind(statement(r.p), LAMBDA then_branch :
          IF ~then_branch.ok THEN then_branch
          ELSE IF check(then_branch.p, {"ELSE"})
            THEN Bind(statement(advance(then_branch.p)), LAMBDA else_branch :
                   IF ~else_branch.ok THEN else_branch
                   ELSE Parsed(else_branch.p,
                               If(condition.node, then_branch.node, <<else_branch.node>>)))
          ELSE Parsed(then_branch.p, If(condition.node, then_branch.node, <<>>))))))

while_statement(p) ==
  Bind(consume(p, {"LEFT_PAREN"}, "Expect '(', after 'while'."), LAMBDA l :
    IF ~l.ok THEN l
    ELSE
    Bind(expression(l.p), LAMBDA condition :
      IF ~condition.ok THEN condition
      ELSE
      Bind(consume(condition.p, {"RIGHT_PAREN"}, "Expect ')' after condition."), LAMBDA r :
        IF ~r.ok THEN r
        ELSE
        Bind(statement(r.p), LAMBDA body :
          IF ~body.ok THEN body
          ELSE Parsed(body.p, While(condition.node, body.node))))))

\* One iteration of the loop of function: one parameter, and `break`
\* unless a comma follows.
parameters_step(l) ==
  IF ~l.more THEN l
  ELSE
  Bind(IF too_many(Len(l.r.node), MaxParameters)
         THEN lox_error(l.r.p, "Can't have more than 255 parameters.")
         ELSE l.r.p, LAMBDA p1 :
  Bind(consume(p1, {"IDENTIFIER"}, "Expect parameter name."), LAMBDA name :
    IF ~name.ok THEN Left(name)
    ELSE IF check(name.p, {"COMMA"})
      THEN Looping(Parsed(advance(name.p), Append(l.r.node, name.node.lexeme)))
    ELSE Left(Parsed(name.p, Append(l.r.node, name.node.lexeme)))))

\* n iterations of the loop of function, fewer if it is left earlier.
parameters_loop(l, n) ==
  IF n = 0 \/ ~l.more THEN l
  ELSE IF n = 1 THEN parameters_step(l)
  ELSE Bind(parameters_loop(l, n \div 2), LAMBDA h :
         parameters_loop(h, n - n \div 2))

function(p, kind) ==
  Bind(consume(p, {"IDENTIFIER"}, "Expect " \o kind \o " name."), LAMBDA name :
    IF ~name.ok THEN name
    ELSE
    Bind(consume(name.p, {"LEFT_PAREN"}, "Expect '(' after " \o kind \o " name."),
         LAMBDA l :
      IF ~l.ok THEN l
      ELSE
      Bind(IF ~check(l.p, {"RIGHT_PAREN"})
             THEN parameters_loop(Looping(Parsed(l.p, <<>>)), Len(l.p.tokens)).r
           ELSE Parsed(l.p, <<>>), LAMBDA parameters :
        IF ~parameters.ok THEN parameters
        ELSE
        Bind(consume(parameters.p, {"RIGHT_PAREN"}, "Expect ')' after parameters."),
             LAMBDA r :
          IF ~r.ok THEN r
          ELSE
          Bind(consume(r.p, {"LEFT_BRACE"}, "Expect '{ before " \o kind \o " body."),
               LAMBDA b :
            IF ~b.ok THEN b
            ELSE
            Bind(block(b.p), LAMBDA body :
              IF ~body.ok THEN body
              ELSE Parsed(body.p,
                          Function(name.node.lexeme, parameters.node, body.node))))))))

block_loop(p, statements) ==
  IF ~check(p, {"RIGHT_BRACE"}) /\ ~is_at_end(p)
    THEN Bind(declaration(p), LAMBDA d :
           IF ~d.ok THEN d ELSE block_loop(d.p, Append(statements, d.node)))
    ELSE Bind(consume(p, {"RIGHT_BRACE"}, "Expect '}' after block."), LAMBDA c :
           IF ~c.ok THEN c ELSE Parsed(c.p, statements))

block(p) == block_loop(p, <<>>)

statement(p) ==
  CASE check(p, {"FOR"}) -> for_statement(advance(p))
    [] check(p, {"IF"}) -> if_statement(advance(p))
    [] check(p, {"PRINT"}) -> print_statement(advance(p))
    [] check(p, {"RETURN"}) -> return_statement(advance(p))
    [] check(p, {"WHILE"}) -> while_statement(advance(p))
    [] check(p, {"LEFT_BRACE"}) ->
         Bind(block(advance(p)), LAMBDA b :
           IF ~b.ok THEN b ELSE Parsed(b.p, Block(b.node)))
    [] OTHER -> expression_statement(p)

declaration(p) ==
  Bind(IF check(p, {"FUN"}) THEN function(advance(p), "function")
       ELSE IF check(p, {"VAR"}) THEN var_declaration(advance(p))
       ELSE statement(p), LAMBDA res :
    IF ~res.ok THEN [res EXCEPT !.p = synchronize(@)] ELSE res)

\* ------------------------------------------------------------------ inputs
\* The sources run, each as the statement list its parse yields.  Every
\* Variable and Assign node carries the identity of the node (id).
Num(n) == Literal(NUMBER(n))
Text(s) == Literal(STRINGV(s))
True == Literal(BOOL(TRUE))
Nil == Literal(NIL)
Some(x) == <<x>>
None == <<>>
Source(name, stmts) == [name |-> name, stmts |-> stmts]

\* Initializers that read x at one position each; y and f are other names.
SelfRefInitializers ==
  << [at |-> "binary_left", e |-> Binary(Variable(1, "x"), "PLUS", Num(1))],
     [at |-> "binary_right", e |-> Binary(Num(1), "MINUS", Variable(1, "x"))],
     [at |-> "unary_minus", e |-> Unary("MINUS", Variable(1, "x"))],
     [at |-> "unary_bang", e |-> Unary("BANG", Variable(1, "x"))],
     [at |-> "logical_left", e |-> Logical(Variable(1, "x"), "OR", True)],
     [at |-> "logical_right", e |-> Logical(True, "AND", Variable(1, "x"))],
     [at |-> "grouping", e |-> Grouping(Variable(1, "x"))],
     [at |-> "assign_value", e |-> Assign(2, "y", Variable(1, "x"))],
     [at |-> "bare", e |-> Variable(1, "x")],
     [at |-> "callee", e |-> CallExpr(Variable(1, "x"), <<>>)],
     [at |-> "argument", e |-> CallExpr(Variable(2, "f"), <<Variable(1, "x")>>)] >>

\* { var x = e; }   and   fun g() { var x = e; }
SelfRefInBlock(i) ==
  Source("selfref_block_" \o SelfRefInitializers[i].at,
         << Block(<< Var("x", Some(SelfRefInitializers[i].e)) >>) >>)
SelfRefInFunction(i) ==
  Source("selfref_fun_" \o SelfRefInitializers[i].at,
         << Function("g", <<>>, << Var("x", Some(SelfRefInitializers[i].e)) >>) >>)

SelfRefSources ==
  [i \in 1..Len(SelfRefInitializers) |-> SelfRefInBlock(i)]
  \o [i \in 1..Len(SelfRefInitializers) |-> SelfRefInFunction(i)]

CallSources == <<
  \* fun f(a) { } f(1);
  Source("call_param",
    << Function("f", <<"a">>, <<>>),
       Expression(CallExpr(Variable(1, "f"), <<Num(1)>>)) >>),
  \* var a = "outer"; fun f(a) { print a; } f(1); print a;
  Source("call_param_global",
    << Var("a", Some(Text("outer"))),
       Function("f", <<"a">>, << PrintStmt(Variable(1, "a")) >>),
       Expression(CallExpr(Variable(2, "f"), <<Num(1)>>)),
       PrintStmt(Variable(3, "a")) >>),
  \* { var n = 5; fun f(a, b) { var n = a + b; print n; } f(1, 2); print n; }
  Source("call_in_block",
    << Block(<< Var("n", Some(Num(5))),
                Function("f", <<"a", "b">>,
                  << Var("n", Some(Binary(Variable(1, "a"), "PLUS", Variable(2, "b")))),
                     PrintStmt(Variable(3, "n")) >>),
                Expression(CallExpr(Variable(4, "f"), <<Num(1), Num(2)>>)),
                PrintStmt(Variable(5, "n")) >>) >>),
  \* var t = clock(); print t - t;
  Source("clock",
    << Var("t", Some(CallExpr(Variable(1, "clock"), <<>>))),
       PrintStmt(Binary(Variable(2, "t"), "MINUS", Variable(3, "t"))) >>)
>>

ScopeSources == <<
  \* var a = "global"; { fun showA() { print a; } showA(); var a = "block"; showA(); }
  Source("static_scope",
    << Var("a", Some(Text("global"))),
       Block(<< Function("showA", <<>>, << PrintStmt(Variable(1, "a")) >>),
                Expression(CallExpr(Variable(2, "showA"), <<>>)),
                Var("a", Some(Text("block"))),
                Expression(CallExpr(Variable(3, "showA"), <<>>)) >>) >>),
  \* var a = 1; { var a = a + 1; print a; } print a;
  Source("shadow_init",
    << Var("a", Some(Num(1))),
       Block(<< Var("a", Some(Binary(Variable(1, "a"), "PLUS", Num(1)))),
                PrintStmt(Variable(2, "a")) >>),
       PrintStmt(Variable(3, "a")) >>),
  \* var a = 1; { var b = a + 1; print b; } print a;
  Source("shadow_other",
    << Var("a", Some(Num(1))),
       Block(<< Var("b", Some(Binary(Variable(1, "a"), "PLUS", Num(1)))),
                PrintStmt(Variable(2, "b")) >>),
       PrintStmt(Variable(3, "a")) >>),
  \* var a = a;
  Source("global_selfref", << Var("a", Some(Variable(1, "a"))) >>),
  \* print 1; var a = a; print 2;
  Source("global_selfref_print",
    << PrintStmt(Num(1)), Var("a", Some(Variable(1, "a"))), PrintStmt(Num(2)) >>),
  \* print 1; { var a = a; }
  Source("block_selfref_print",
    << PrintStmt(Num(1)), Block(<< Var("a", Some(Variable(1, "a"))) >>) >>)
>>

ClosureSources == <<
  \* fun counter() { var i = 0; fun inc() { i = i + 1; return i; } return inc; }
  \* var c = counter(); print c(); print c();
  Source("counter",
    << Function("counter", <<>>,
         << Var("i", Some(Num(0))),
            Function("inc", <<>>,
              << Expression(Assign(1, "i", Binary(Variable(2, "i"), "PLUS", Num(1)))),
                 Return(Variable(3, "i")) >>),
            Return(Variable(4, "inc")) >>),
       Var("c", Some(CallExpr(Variable(5, "counter"), <<>>))),
       PrintStmt(CallExpr(Variable(6, "c"), <<>>)),
       PrintStmt(CallExpr(Variable(7, "c"), <<>>)) >>),
  \* var inc; { var i = 0; fun bump() { i = i + 1; return i; } inc = bump; }
  \* print inc(); print inc(); print inc();
  Source("block_closure",
    << Var("inc", None),
       Block(<< Var("i", Some(Num(0))),
                Function("bump", <<>>,
                  << Expression(Assign(1, "i", Binary(Variable(2, "i"), "PLUS", Num(1)))),
                     Return(Variable(3, "i")) >>),
                Expression(Assign(4, "inc", Variable(5, "bump"))) >>),
       PrintStmt(CallExpr(Variable(6, "inc"), <<>>)),
       PrintStmt(CallExpr(Variable(7, "inc"), <<>>)),
       PrintStmt(CallExpr(Variable(8, "inc"), <<>>)) >>),
  \* { var x = 1; fun get() { return x; } x = 2; print get(); }
  Source("late_binding",
    << Block(<< Var("x", Some(Num(1))),
                Function("get", <<>>, << Return(Variable(1, "x")) >>),
                Expression(Assign(2, "x", Num(2))),
                PrintStmt(CallExpr(Variable(3, "get"), <<>>)) >>) >>)
>>

ReturnSources == <<
  \* return;
  Source("return_top", << Return(Nil) >>),
  \* print 1; return 1;
  Source("return_top_value", << PrintStmt(Num(1)), Return(Num(1)) >>),
  \* { return; }
  Source("return_in_block", << Block(<< Return(Nil) >>) >>),
  \* if (true) return;
  Source("return_in_if", << If(True, Return(Nil), None) >>),
  \* while (true) return 1;
  Source("return_in_while", << While(True, Return(Num(1))) >>),
  \* fun f() { return 1; } print f(); return;
  Source("return_after_fun",
    << Function("f", <<>>, << Return(Num(1)) >>),
       PrintStmt(CallExpr(Variable(1, "f"), <<>>)),
       Return(Nil) >>),
  \* fun f(n) { while (true) { if (n > 0) { return n; } n = n + 1; } print "no"; }
  \* print f(0 - 1);
  Source("return_nested",
    << Function("f", <<"n">>,
         << While(True,
              Block(<< If(Binary(Variable(1, "n"), "GREATER", Num(0)),
                          Block(<< Return(Variable(2, "n")) >>), None),
                       Expression(Assign(3, "n",
                                    Binary(Variable(4, "n"), "PLUS", Num(1)))) >>)),
            PrintStmt(Text("no")) >>),
       PrintStmt(CallExpr(Variable(5, "f"), <<Binary(Num(0), "MINUS", Num(1))>>)) >>),
  \* fun outer() { fun inner() { return 1; } return inner() + 1; } print outer();
  Source("return_inner_fun",
    << Function("outer", <<>>,
         << Function("inner", <<>>, << Return(Num(1)) >>),
            Return(Binary(CallExpr(Variable(1, "inner"), <<>>), "PLUS", Num(1))) >>),
       PrintStmt(CallExpr(Variable(2, "outer"), <<>>)) >>),
  \* fun f() { return; } print f();
  Source("return_bare",
    << Function("f", <<>>, << Return(Nil) >>),
       PrintStmt(CallExpr(Variable(1, "f"), <<>>)) >>),
  \* fun f() { } print f(); print f;
  Source("no_return",
    << Function("f", <<>>, <<>>),
       PrintStmt(CallExpr(Variable(1, "f"), <<>>)),
       PrintStmt(Variable(2, "f")) >>)
>>

\* More placements of return, outside and inside function bodies.
ReturnScopeSources == <<
  \* if (nil) print 1; else return;
  Source("return_in_else", << If(Nil, PrintStmt(Num(1)), Some(Return(Nil))) >>),
  \* { fun f() { return 1; } { while (nil) { return f(); } } }
  Source("return_block_after_fun",
    << Block(<< Function("f", <<>>, << Return(Num(1)) >>),
                Block(<< While(Nil,
                           Block(<< Return(CallExpr(Variable(1, "f"), <<>>)) >>)) >>) >>) >>),
  \* fun outer() { fun inner() { return 1; } } return;
  Source("return_after_nested_fun",
    << Function("outer", <<>>, << Function("inner", <<>>, << Return(Num(1)) >>) >>),
       Return(Nil) >>),
  \* fun outer() { fun inner() { } if (true) { while (true) { return 2; } } }
  \* print outer();
  Source("return_outer_after_inner",
    << Function("outer", <<>>,
         << Function("inner", <<>>, <<>>),
            If(True, Block(<< While(True, Block(<< Return(Num(2)) >>)) >>), None) >>),
       PrintStmt(CallExpr(Variable(1, "outer"), <<>>)) >>),
  \* { fun f() { { fun g() { return 3; } return g(); } } print f(); }
  Source("return_deep",
    << Block(<< Function("f", <<>>,
                  << Block(<< Function("g", <<>>, << Return(Num(3)) >>),
                              Return(CallExpr(Variable(1, "g"), <<>>)) >>) >>),
                PrintStmt(CallExpr(Variable(2, "f"), <<>>)) >>) >>)
>>

ErrorSources == <<
  \* var a = 1; { var b = 2; { print c; } print b; } print a;
  Source("error_in_block",
    << Var("a", Some(Num(1))),
       Block(<< Var("b", Some(Num(2))),
                Block(<< PrintStmt(Variable(1, "c")) >>),
                PrintStmt(Variable(2, "b")) >>),
       PrintStmt(Variable(3, "a")) >>),
  \* fun f() { { print 1 + nil; } } { f(); } print "after";
  Source("error_in_call",
    << Function("f", <<>>, << Block(<< PrintStmt(Binary(Num(1), "PLUS", Nil)) >>) >>),
       Block(<< Expression(CallExpr(Variable(1, "f"), <<>>)) >>),
       PrintStmt(Text("after")) >>),
  \* { var s = "str"; s(); }
  Source("not_callable",
    << Block(<< Var("s", Some(Text("str"))),
                Expression(CallExpr(Variable(1, "s"), <<>>)) >>) >>),
  \* fun f(a) { return a; } print f(1, 2);
  Source("arity",
    << Function("f", <<"a">>, << Return(Variable(1, "a")) >>),
       PrintStmt(CallExpr(Variable(2, "f"), <<Num(1), Num(2)>>)) >>),
  \* if (nil) print "then"; else { print "else"; } undefined = 1;
  Source("if_else",
    << If(Nil, PrintStmt(Text("then")), Some(Block(<< PrintStmt(Text("else")) >>))),
       Expression(Assign(1, "undefined", Num(1))) >>),
  \* print "a" + "b"; print !(1 == 1) or -(2 * 3) <= 0;
  Source("operators",
    << PrintStmt(Binary(Text("a"), "PLUS", Text("b"))),
       PrintStmt(Logical(Unary("BANG", Grouping(Binary(Num(1), "EQUAL_EQUAL", Num(1)))),
                         "OR",
                         Binary(Unary("MINUS", Grouping(Binary(Num(2), "STAR", Num(3)))),
                                "LESS_EQUAL", Num(0)))) >>)
>>

\* Sources that declare one name twice in one block or function scope.
DuplicateSources == <<
  \* { var a; var a; }
  Source("dup_var_var", << Block(<< Var("a", None), Var("a", None) >>) >>),
  \* { fun a() {} var a; }
  Source("dup_fun_var", << Block(<< Function("a", <<>>, <<>>), Var("a", None) >>) >>),
  \* { var a; fun a() {} }
  Source("dup_var_fun", << Block(<< Var("a", None), Function("a", <<>>, <<>>) >>) >>),
  \* fun f(a, a) {}
  Source("dup_params", << Function("f", <<"a", "a">>, <<>>) >>),
  \* fun f(a) { var a; }
  Source("dup_param_var", << Function("f", <<"a">>, << Var("a", None) >>) >>),
  \* fun f() { var a = 1; var a = 2; }
  Source("dup_fun_body",
    << Function("f", <<>>, << Var("a", Some(Num(1))), Var("a", Some(Num(2))) >>) >>),
  \* { var b; { var a; var a; } }
  Source("dup_inner_block",
    << Block(<< Var("b", None), Block(<< Var("a", None), Var("a", None) >>) >>) >>)
>>

\* Sources that declare one name twice, but never twice in one block or
\* function scope.
RedeclareSources == <<
  \* { var a; { var a; } }
  Source("redeclare_nested", << Block(<< Var("a", None), Block(<< Var("a", None) >>) >>) >>),
  \* var a = 1; var a = 2; print a;
  Source("redeclare_global",
    << Var("a", Some(Num(1))), Var("a", Some(Num(2))), PrintStmt(Variable(1, "a")) >>),
  \* fun a() {} var a;
  Source("redeclare_global_fun", << Function("a", <<>>, <<>>), Var("a", None) >>),
  \* fun f(a) { { var a; } }
  Source("redeclare_param_nested",
    << Function("f", <<"a">>, << Block(<< Var("a", None) >>) >>) >>),
  \* { { var a; } { var a; } }
  Source("redeclare_sibling",
    << Block(<< Block(<< Var("a", None) >>), Block(<< Var("a", None) >>) >>) >>),
  \* { fun f(a) {} fun g(a) {} }
  Source("redeclare_params",
    << Block(<< Function("f", <<"a">>, <<>>), Function("g", <<"a">>, <<>>) >>) >>)
>>

DistanceSources == <<
  \* var g = 0;
  \* { var a = 1;
  \*   { var b = a; a = b; g = a;
  \*     fun f(p) { print p; { p = a; } return b; } } }
  Source("distance_nested",
    << Var("g", Some(Num(0))),
       Block(<< Var("a", Some(Num(1))),
                Block(<< Var("b", Some(Variable(1, "a"))),
                         Expression(Assign(2, "a", Variable(3, "b"))),
                         Expression(Assign(4, "g", Variable(5, "a"))),
                         Function("f", <<"p">>,
                           << PrintStmt(Variable(6, "p")),
                              Block(<< Expression(Assign(7, "p", Variable(8, "a"))) >>),
                              Return(Variable(9, "b")) >>) >>) >>) >>),
  \* { var a = 1; fun f(x) { return x; } print f(a); }
  Source("distance_call",
    << Block(<< Var("a", Some(Num(1))),
                Function("f", <<"x">>, << Return(Variable(1, "x")) >>),
                PrintStmt(CallExpr(Variable(2, "f"), <<Variable(3, "a")>>)) >>) >>),
  \* { fun f() {} { f(); } }
  Source("distance_callee",
    << Block(<< Function("f", <<>>, <<>>),
                Block(<< Expression(CallExpr(Variable(1, "f"), <<>>)) >>) >>) >>)
>>

\* Calls that are refused: the callee is not a callable, or the number of
\* arguments is not its arity.  The parameters are named a and b and the
\* bodies print body.
CallErrorSources == <<
  \* fun f(a) { print "body"; } f(1, 2);
  Source("arity_more",
    << Function("f", <<"a">>, << PrintStmt(Text("body")) >>),
       Expression(CallExpr(Variable(1, "f"), <<Num(1), Num(2)>>)) >>),
  \* fun f(a, b) { print "body"; } f(1);
  Source("arity_fewer",
    << Function("f", <<"a", "b">>, << PrintStmt(Text("body")) >>),
       Expression(CallExpr(Variable(1, "f"), <<Num(1)>>)) >>),
  \* fun f() { print "body"; } f(nil);
  Source("arity_none",
    << Function("f", <<>>, << PrintStmt(Text("body")) >>),
       Expression(CallExpr(Variable(1, "f"), <<Nil>>)) >>),
  \* { fun f(a) { print "body"; } f(); }
  Source("arity_in_block",
    << Block(<< Function("f", <<"a">>, << PrintStmt(Text("body")) >>),
                Expression(CallExpr(Variable(1, "f"), <<>>)) >>) >>),
  \* clock(1);
  Source("arity_clock",
    << Expression(CallExpr(Variable(1, "clock"), <<Num(1)>>)) >>),
  \* "str"();
  Source("call_string", << Expression(CallExpr(Text("str"), <<>>)) >>),
  \* var n = 3; n(1);
  Source("call_number",
    << Var("n", Some(Num(3))),
       Expression(CallExpr(Variable(1, "n"), <<Num(1)>>)) >>),
  \* nil(1, 2);
  Source("call_nil", << Expression(CallExpr(Nil, <<Num(1), Num(2)>>)) >>),
  \* true();
  Source("call_bool", << Expression(CallExpr(True, <<>>)) >>)
>>

\* Sources that raise a RuntimeError after statements with effects and
\* before others.
HaltSources == <<
  \* var a = 1; print a; a = 2; print a + nil; print "after"; a = 3;
  Source("halt_top",
    << Var("a", Some(Num(1))),
       PrintStmt(Variable(1, "a")),
       Expression(Assign(2, "a", Num(2))),
       PrintStmt(Binary(Variable(3, "a"), "PLUS", Nil)),
       PrintStmt(Text("after")),
       Expression(Assign(4, "a", Num(3))) >>),
  \* var a = 1; { var b = 2; a = 5; print b; print nil - 1; a = 6; print "after"; }
  \* print "end";
  Source("halt_in_block",
    << Var("a", Some(Num(1))),
       Block(<< Var("b", Some(Num(2))),
                Expression(Assign(1, "a", Num(5))),
                PrintStmt(Variable(2, "b")),
                PrintStmt(Binary(Nil, "MINUS", Num(1))),
                Expression(Assign(3, "a", Num(6))),
                PrintStmt(Text("after")) >>),
       PrintStmt(Text("end")) >>),
  \* var a = 1; fun f() { a = a + 1; print a; undefined; a = 9; print "after"; }
  \* f(); print "end";
  Source("halt_in_function",
    << Var("a", Some(Num(1))),
       Function("f", <<>>,
         << Expression(Assign(1, "a", Binary(Variable(2, "a"), "PLUS", Num(1)))),
            PrintStmt(Variable(3, "a")),
            Expression(Variable(4, "undefined")),
            Expression(Assign(5, "a", Num(9))),
            PrintStmt(Text("after")) >>),
       Expression(CallExpr(Variable(6, "f"), <<>>)),
       PrintStmt(Text("end")) >>),
  \* var a = 0; while (true) { print a; a = a + 1; if (a >= 2) -"x"; }
  \* print "end";
  Source("halt_in_loop",
    << Var("a", Some(Num(0))),
       While(True,
         Block(<< PrintStmt(Variable(1, "a")),
                  Expression(Assign(2, "a", Binary(Variable(3, "a"), "PLUS", Num(1)))),
                  If(Binary(Variable(4, "a"), "GREATER_EQUAL", Num(2)),
                     Expression(Unary("MINUS", Text("x"))), None) >>)),
       PrintStmt(Text("end")) >>),
  \* fun f(p, q) { print "after"; } var a = 0; f(a = 1, nope); print "end";
  Source("halt_in_arguments",
    << Function("f", <<"p", "q">>, << PrintStmt(Text("after")) >>),
       Var("a", Some(Num(0))),
       Expression(CallExpr(Variable(1, "f"),
                           <<Assign(2, "a", Num(1)), Variable(3, "nope")>>)),
       PrintStmt(Text("end")) >>),
  \* var a = 4; fun g() {} nil(); var c = 3; a = 0;
  Source("halt_before_var",
    << Var("a", Some(Num(4))),
       Function("g", <<>>, <<>>),
       Expression(CallExpr(Nil, <<>>)),
       Var("c", Some(Num(3))),
       Expression(Assign(1, "a", Num(0))) >>)
>>

\* Sources for the logical operators.
LogicalSources == <<
  \* print "hi" or 2; print nil or "yes"; print false or nil; print nil and 1;
  \* print 0 and "zero"; print 1 and 2; print false and 1; print "" or 1;
  Source("logical_values",
    << PrintStmt(Logical(Text("hi"), "OR", Num(2))),
       PrintStmt(Logical(Nil, "OR", Text("yes"))),
       PrintStmt(Logical(Literal(BOOL(FALSE)), "OR", Nil)),
       PrintStmt(Logical(Nil, "AND", Num(1))),
       PrintStmt(Logical(Num(0), "AND", Text("zero"))),
       PrintStmt(Logical(Num(1), "AND", Num(2))),
       PrintStmt(Logical(Literal(BOOL(FALSE)), "AND", Num(1))),
       PrintStmt(Logical(Text(""), "OR", Num(1))) >>),
  \* var a = 0; true or (a = 1); print a; false and (a = 2); print a;
  \* nil or (a = 3); print a; 1 and (a = 4); print a;
  Source("logical_short",
    << Var("a", Some(Num(0))),
       Expression(Logical(True, "OR", Grouping(Assign(1, "a", Num(1))))),
       PrintStmt(Variable(2, "a")),
       Expression(Logical(Literal(BOOL(FALSE)), "AND", Grouping(Assign(3, "a", Num(2))))),
       PrintStmt(Variable(4, "a")),
       Expression(Logical(Nil, "OR", Grouping(Assign(5, "a", Num(3))))),
       PrintStmt(Variable(6, "a")),
       Expression(Logical(Num(1), "AND", Grouping(Assign(7, "a", Num(4))))),
       PrintStmt(Variable(8, "a")) >>),
  \* print true or missing; print nil and missing;
  Source("logical_unevaluated",
    << PrintStmt(Logical(True, "OR", Variable(1, "missing"))),
       PrintStmt(Logical(Nil, "AND", Variable(2, "missing"))) >>),
  \* print (1 or 2) + 1; print (nil and 1) == nil; print ("a" and "b") + "c";
  Source("logical_uncoerced",
    << PrintStmt(Binary(Grouping(Logical(Num(1), "OR", Num(2))), "PLUS", Num(1))),
       PrintStmt(Binary(Grouping(Logical(Nil, "AND", Num(1))), "EQUAL_EQUAL", Nil)),
       PrintStmt(Binary(Grouping(Logical(Text("a"), "AND", Text("b"))), "PLUS",
                        Text("c"))) >>),
  \* fun f() {} print f or 1; print nil or false or "last"; print 1 and nil and 2;
  Source("logical_chain",
    << Function("f", <<>>, <<>>),
       PrintStmt(Logical(Variable(1, "f"), "OR", Num(1))),
       PrintStmt(Logical(Logical(Nil, "OR", Literal(BOOL(FALSE))), "OR", Text("last"))),
       PrintStmt(Logical(Logical(Num(1), "AND", Nil), "AND", Num(2))) >>)
>>

\* The operands a binary operator is applied to: two numbers, two strings
\* (one spelling a number), nil, the booleans, and the names of the native
\* function and of a user function.
Operand(name, kind, value) == [name |-> name, kind |-> kind, value |-> value]

Operands == <<
  Operand("6", "NUMBER", NUMBER(6)),
  Operand("2", "NUMBER", NUMBER(2)),
  Operand("a", "STRING", STRINGV("a")),
  Operand("s6", "STRING", STRINGV("6")),
  Operand("nil", "NIL", NIL),
  Operand("true", "BOOL", BOOL(TRUE)),
  Operand("false", "BOOL", BOOL(FALSE)),
  Operand("clock", "CALLABLE", NIL),
  Operand("f", "CALLABLE", NIL)
>>

\* The expression of an operand: a literal, or the variable of a callable.
OperandExpr(o, id) ==
  IF o.kind = "CALLABLE" THEN Variable(id, o.name) ELSE Literal(o.value)

ArithmeticOperators ==
  <<"MINUS", "STAR", "SLASH", "GREATER", "GREATER_EQUAL", "LESS", "LESS_EQUAL", "PLUS">>

\* The i-th application: operator, left operand, right operand.
OperatorCase(i) ==
  LET n == Len(Operands)
  IN [op |-> ArithmeticOperators[((i - 1) \div (n * n)) + 1],
      l |-> Operands[(((i - 1) \div n) % n) + 1],
      r |-> Operands[((i - 1) % n) + 1]]

\* fun f() {} var v = <l> <op> <r>; print "after";
OperatorSource(c) ==
  Source(c.op \o "_" \o c.l.name \o "_" \o c.r.name,
    << Function("f", <<>>, <<>>),
       Var("v", Some(Binary(OperandExpr(c.l, 1), c.op, OperandExpr(c.r, 2)))),
       PrintStmt(Text("after")) >>)

OperatorSources ==
  [i \in 1..(Len(ArithmeticOperators) * Len(Operands) * Len(Operands)) |->
     OperatorSource(OperatorCase(i))]

\* Calls made while a call of a function with the same parameter name is
\* active.
ActivationSources == <<
  \* fun f(n) { if (n > 0) f(n - 1); print n; } f(2);
  Source("activation_recursive",
    << Function("f", <<"n">>,
         << If(Binary(Variable(1, "n"), "GREATER", Num(0)),
               Expression(CallExpr(Variable(2, "f"),
                                   <<Binary(Variable(3, "n"), "MINUS", Num(1))>>)),
               None),
            PrintStmt(Variable(4, "n")) >>),
       Expression(CallExpr(Variable(5, "f"), <<Num(2)>>)) >>),
  \* fun g(n) { } fun f(n) { g(n + 10); print n; } f(1);
  Source("activation_other",
    << Function("g", <<"n">>, <<>>),
       Function("f", <<"n">>,
         << Expression(CallExpr(Variable(1, "g"),
                                <<Binary(Variable(2, "n"), "PLUS", Num(10))>>)),
            PrintStmt(Variable(3, "n")) >>),
       Expression(CallExpr(Variable(4, "f"), <<Num(1)>>)) >>)
>>

\* Calls whose callee and arguments print when they are evaluated:
\* fun p(x) { print x; return x; } begins each source.
TracedPrinter ==
  Function("p", <<"x">>, << PrintStmt(Variable(1, "x")), Return(Variable(2, "x")) >>)

Traced(id, n) == CallExpr(Variable(id, "p"), <<Num(n)>>)

OrderSources == <<
  \* fun f(a, b) { print "body"; } fun g() { print "callee"; return f; }
  \* g()(p(1), p(2));
  Source("order_call",
    << TracedPrinter,
       Function("f", <<"a", "b">>, << PrintStmt(Text("body")) >>),
       Function("g", <<>>, << PrintStmt(Text("callee")), Return(Variable(3, "f")) >>),
       Expression(CallExpr(CallExpr(Variable(4, "g"), <<>>),
                           <<Traced(5, 1), Traced(6, 2)>>)) >>),
  \* fun g() { print "callee"; return nil; } g()(p(1), p(2)); print "after";
  Source("order_not_callable",
    << TracedPrinter,
       Function("g", <<>>, << PrintStmt(Text("callee")), Return(Nil) >>),
       Expression(CallExpr(CallExpr(Variable(3, "g"), <<>>),
                           <<Traced(4, 1), Traced(5, 2)>>)),
       PrintStmt(Text("after")) >>),
  \* fun f(a) { print "body"; } f(p(1), p(2), p(3)); print "after";
  Source("order_arity",
    << TracedPrinter,
       Function("f", <<"a">>, << PrintStmt(Text("body")) >>),
       Expression(CallExpr(Variable(3, "f"), <<Traced(4, 1), Traced(5, 2), Traced(6, 3)>>)),
       PrintStmt(Text("after")) >>),
  \* fun f(a, b, c) { print "body"; } f(p(1), missing, p(3)); print "after";
  Source("order_argument_fails",
    << TracedPrinter,
       Function("f", <<"a", "b", "c">>, << PrintStmt(Text("body")) >>),
       Expression(CallExpr(Variable(3, "f"),
                           <<Traced(4, 1), Variable(5, "missing"), Traced(6, 3)>>)),
       PrintStmt(Text("after")) >>),
  \* missing(p(1)); print "after";
  Source("order_callee_fails",
    << TracedPrinter,
       Expression(CallExpr(Variable(3, "missing"), <<Traced(4, 1)>>)),
       PrintStmt(Text("after")) >>)
>>

\* Returns inside nested blocks, if and while statements of a function
\* body, and bodies that end without one.
ReturnDepthSources == <<
  \* fun f() { { { print "in"; return "v"; print "x"; } print "y"; } print "z"; }
  \* print f(); print "end";
  Source("return_in_blocks",
    << Function("f", <<>>,
         << Block(<< Block(<< PrintStmt(Text("in")), Return(Text("v")),
                              PrintStmt(Text("x")) >>),
                     PrintStmt(Text("y")) >>),
            PrintStmt(Text("z")) >>),
       PrintStmt(CallExpr(Variable(1, "f"), <<>>)),
       PrintStmt(Text("end")) >>),
  \* fun f() { var i = 0; while (i < 3) { print i; if (i >= 1) { return i; }
  \* i = i + 1; } print "z"; } print f();
  Source("return_in_loop",
    << Function("f", <<>>,
         << Var("i", Some(Num(0))),
            While(Binary(Variable(1, "i"), "LESS", Num(3)),
              Block(<< PrintStmt(Variable(2, "i")),
                       If(Binary(Variable(3, "i"), "GREATER_EQUAL", Num(1)),
                          Block(<< Return(Variable(4, "i")) >>), None),
                       Expression(Assign(5, "i",
                         Binary(Variable(6, "i"), "PLUS", Num(1)))) >>)),
            PrintStmt(Text("z")) >>),
       PrintStmt(CallExpr(Variable(7, "f"), <<>>)) >>),
  \* fun f(c) { if (c) { return "then"; } else { return "else"; } print "z"; }
  \* print f(true); print f(false);
  Source("return_in_branches",
    << Function("f", <<"c">>,
         << If(Variable(1, "c"), Block(<< Return(Text("then")) >>),
               Some(Block(<< Return(Text("else")) >>))),
            PrintStmt(Text("z")) >>),
       PrintStmt(CallExpr(Variable(2, "f"), <<True>>)),
       PrintStmt(CallExpr(Variable(3, "f"), <<Literal(BOOL(FALSE))>>)) >>),
  \* fun f() { while (true) { { return; } } print "z"; } print f();
  Source("return_bare_in_loop",
    << Function("f", <<>>,
         << While(True, Block(<< Block(<< Return(Nil) >>) >>)),
            PrintStmt(Text("z")) >>),
       PrintStmt(CallExpr(Variable(1, "f"), <<>>)) >>),
  \* fun f() { print "body"; if (false) return 1; } print f();
  Source("return_not_executed",
    << Function("f", <<>>,
         << PrintStmt(Text("body")),
            If(Literal(BOOL(FALSE)), Return(Num(1)), None) >>),
       PrintStmt(CallExpr(Variable(1, "f"), <<>>)) >>)
>>

Sources ==
  CallSources \o ReturnDepthSources \o OrderSources \o ActivationSources \o OperatorSources \o LogicalSources \o HaltSources \o CallErrorSources \o ScopeSources \o ClosureSources \o ReturnSources
  \o ReturnScopeSources \o ErrorSources
  \o DuplicateSources \o RedeclareSources \o DistanceSources \o SelfRefSources

\* The sources run from their tokens, as the scanner yields them.
Lexemes ==
  ("LEFT_PAREN" :> "(")
     @@ ("RIGHT_PAREN" :> ")")
     @@ ("LEFT_BRACE" :> "{")
     @@ ("RIGHT_BRACE" :> "}")
     @@ ("COMMA" :> ",")
     @@ ("MINUS" :> "-")
     @@ ("PLUS" :> "+")
     @@ ("SEMICOLON" :> ";")
     @@ ("SLASH" :> "/")
     @@ ("STAR" :> "*")
     @@ ("BANG" :> "!")
     @@ ("BANG_EQUAL" :> "!=")
     @@ ("EQUAL" :> "=")
     @@ ("EQUAL_EQUAL" :> "==")
     @@ ("GREATER" :> ">")
     @@ ("GREATER_EQUAL" :> ">=")
     @@ ("LESS" :> "<")
     @@ ("LESS_EQUAL" :> "<=")
     @@ ("AND" :> "and")
     @@ ("ELSE" :> "else")
     @@ ("FALSE" :> "false")
     @@ ("FUN" :> "fun")
     @@ ("FOR" :> "for")
     @@ ("IF" :> "if")
     @@ ("NIL" :> "nil")
     @@ ("OR" :> "or")
     @@ ("PRINT" :> "print")
     @@ ("RETURN" :> "return")
     @@ ("TRUE" :> "true")
     @@ ("VAR" :> "var")
     @@ ("WHILE" :> "while")
     @@ ("EOF" :> "")

Tk(type) == Token(type, Lexemes[type], NIL)
Ident(name) == Token("IDENTIFIER", name, NIL)
NumTok(n) == Token("NUMBER", NatToString(n), NUMBER(n))
StrTok(s) == Token("STRING", "\"" \o s \o "\"", STRINGV(s))

T_LEFT_PAREN == Tk("LEFT_PAREN")
T_RIGHT_PAREN == Tk("RIGHT_PAREN")
T_LEFT_BRACE == Tk("LEFT_BRACE")
T_RIGHT_BRACE == Tk("RIGHT_BRACE")
T_COMMA == Tk("COMMA")
T_SEMICOLON == Tk("SEMICOLON")
T_EQUAL == Tk("EQUAL")
T_PLUS == Tk("PLUS")
T_LESS == Tk("LESS")
T_GREATER_EQUAL == Tk("GREATER_EQUAL")
T_FUN == Tk("FUN")
T_FOR == Tk("FOR")
T_IF == Tk("IF")
T_PRINT == Tk("PRINT")
T_RETURN == Tk("RETURN")
T_VAR == Tk("VAR")

\* The scanner ends every token list with EOF.
TokenSource(name, toks) == [name |-> name, tokens |-> toks \o <<Tk("EOF")>>]

\* n items separated by commas.
Separated(n, item(_)) ==
  [i \in 1..(2 * n - 1) |-> IF i % 2 = 1 THEN item((i + 1) \div 2) ELSE T_COMMA]

ZeroArgument(i) == NumTok(0)
NumberedParameter(i) == Ident("p" \o NatToString(i))

ForSources == <<
  \* for (var i = 0; i < 3; i = i + 1) print i;
  TokenSource("for_basic",
    << T_FOR, T_LEFT_PAREN, T_VAR, Ident("i"), T_EQUAL, NumTok(0), T_SEMICOLON,
       Ident("i"), T_LESS, NumTok(3), T_SEMICOLON,
       Ident("i"), T_EQUAL, Ident("i"), T_PLUS, NumTok(1), T_RIGHT_PAREN,
       T_PRINT, Ident("i"), T_SEMICOLON >>),
  \* for (var i = 5; i < 3; i = i + 1) print i; print "end";
  TokenSource("for_never",
    << T_FOR, T_LEFT_PAREN, T_VAR, Ident("i"), T_EQUAL, NumTok(5), T_SEMICOLON,
       Ident("i"), T_LESS, NumTok(3), T_SEMICOLON,
       Ident("i"), T_EQUAL, Ident("i"), T_PLUS, NumTok(1), T_RIGHT_PAREN,
       T_PRINT, Ident("i"), T_SEMICOLON,
       T_PRINT, StrTok("end"), T_SEMICOLON >>),
  \* var i = 0; for (; i < 2; i = i + 1) print i;
  TokenSource("for_no_init",
    << T_VAR, Ident("i"), T_EQUAL, NumTok(0), T_SEMICOLON,
       T_FOR, T_LEFT_PAREN, T_SEMICOLON,
       Ident("i"), T_LESS, NumTok(2), T_SEMICOLON,
       Ident("i"), T_EQUAL, Ident("i"), T_PLUS, NumTok(1), T_RIGHT_PAREN,
       T_PRINT, Ident("i"), T_SEMICOLON >>),
  \* for (var i = 0; i < 2;) { print i; i = i + 1; }
  TokenSource("for_no_inc",
    << T_FOR, T_LEFT_PAREN, T_VAR, Ident("i"), T_EQUAL, NumTok(0), T_SEMICOLON,
       Ident("i"), T_LESS, NumTok(2), T_SEMICOLON, T_RIGHT_PAREN,
       T_LEFT_BRACE, T_PRINT, Ident("i"), T_SEMICOLON,
       Ident("i"), T_EQUAL, Ident("i"), T_PLUS, NumTok(1), T_SEMICOLON, T_RIGHT_BRACE >>),
  \* fun f() { for (var i = 0;; i = i + 1) { if (i >= 2) return i; } } print f();
  TokenSource("for_no_cond",
    << T_FUN, Ident("f"), T_LEFT_PAREN, T_RIGHT_PAREN, T_LEFT_BRACE,
       T_FOR, T_LEFT_PAREN, T_VAR, Ident("i"), T_EQUAL, NumTok(0), T_SEMICOLON, T_SEMICOLON,
       Ident("i"), T_EQUAL, Ident("i"), T_PLUS, NumTok(1), T_RIGHT_PAREN,
       T_LEFT_BRACE, T_IF, T_LEFT_PAREN, Ident("i"), T_GREATER_EQUAL, NumTok(2), T_RIGHT_PAREN,
       T_RETURN, Ident("i"), T_SEMICOLON, T_RIGHT_BRACE, T_RIGHT_BRACE,
       T_PRINT, Ident("f"), T_LEFT_PAREN, T_RIGHT_PAREN, T_SEMICOLON >>),
  \* var i; for (i = 1; i < 3; i = i + 1) print i;
  TokenSource("for_expr_init",
    << T_VAR, Ident("i"), T_SEMICOLON,
       T_FOR, T_LEFT_PAREN, Ident("i"), T_EQUAL, NumTok(1), T_SEMICOLON,
       Ident("i"), T_LESS, NumTok(3), T_SEMICOLON,
       Ident("i"), T_EQUAL, Ident("i"), T_PLUS, NumTok(1), T_RIGHT_PAREN,
       T_PRINT, Ident("i"), T_SEMICOLON >>),
  \* fun g() { for (;;) return 7; } print g();
  TokenSource("for_bare",
    << T_FUN, Ident("g"), T_LEFT_PAREN, T_RIGHT_PAREN, T_LEFT_BRACE,
       T_FOR, T_LEFT_PAREN, T_SEMICOLON, T_SEMICOLON, T_RIGHT_PAREN,
       T_RETURN, NumTok(7), T_SEMICOLON, T_RIGHT_BRACE,
       T_PRINT, Ident("g"), T_LEFT_PAREN, T_RIGHT_PAREN, T_SEMICOLON >>)
>>

\* Sources for which the parser reports an error and goes on.
ReportedSources == <<
  \* print 1; 1 = 2; print 3;
  TokenSource("invalid_assign",
    << T_PRINT, NumTok(1), T_SEMICOLON,
       NumTok(1), T_EQUAL, NumTok(2), T_SEMICOLON,
       T_PRINT, NumTok(3), T_SEMICOLON >>),
  \* var a = 1; (a) = 2; print a;
  TokenSource("invalid_assign_group",
    << T_VAR, Ident("a"), T_EQUAL, NumTok(1), T_SEMICOLON,
       T_LEFT_PAREN, Ident("a"), T_RIGHT_PAREN, T_EQUAL, NumTok(2), T_SEMICOLON,
       T_PRINT, Ident("a"), T_SEMICOLON >>),
  \* print 1; nope(0, .., 0);   with 256 arguments
  TokenSource("many_arguments",
    << T_PRINT, NumTok(1), T_SEMICOLON, Ident("nope"), T_LEFT_PAREN >>
    \o Separated(MaxArguments + 1, ZeroArgument)
    \o << T_RIGHT_PAREN, T_SEMICOLON >>),
  \* fun f(p1, .., p256) { } print 1;
  TokenSource("many_parameters",
    << T_FUN, Ident("f"), T_LEFT_PAREN >>
    \o Separated(MaxParameters + 1, NumberedParameter)
    \o << T_RIGHT_PAREN, T_LEFT_BRACE, T_RIGHT_BRACE, T_PRINT, NumTok(1), T_SEMICOLON >>)
>>

\* Calls and declarations with lists at the cap and beyond it.
\* print 1; nope(0, .., 0);   with n arguments
ArgumentsSource(name, n) ==
  TokenSource(name,
    << T_PRINT, NumTok(1), T_SEMICOLON, Ident("nope"), T_LEFT_PAREN >>
    \o Separated(n, ZeroArgument)
    \o << T_RIGHT_PAREN, T_SEMICOLON >>)

\* fun f(p1, .., pn) { } print 1;
ParametersSource(name, n) ==
  TokenSource(name,
    << T_FUN, Ident("f"), T_LEFT_PAREN >>
    \o Separated(n, NumberedParameter)
    \o << T_RIGHT_PAREN, T_LEFT_BRACE, T_RIGHT_BRACE, T_PRINT, NumTok(1), T_SEMICOLON >>)

CapSources == <<
  ArgumentsSource("arguments_at_cap", MaxArguments),
  ArgumentsSource("arguments_two_over", MaxArguments + 2),
  ParametersSource("parameters_at_cap", MaxParameters),
  ParametersSource("parameters_two_over", MaxParameters + 2)
>>

\* Sources with a statement the parser fails on.
MalformedSources == <<
  \* print 1; print ;
  TokenSource("malformed_last",
    << T_PRINT, NumTok(1), T_SEMICOLON, T_PRINT, T_SEMICOLON >>),
  \* print ; print 1;
  TokenSource("malformed_first",
    << T_PRINT, T_SEMICOLON, T_PRINT, NumTok(1), T_SEMICOLON >>),
  \* print ; print ;
  TokenSource("malformed_two",
    << T_PRINT, T_SEMICOLON, T_PRINT, T_SEMICOLON >>),
  \* var = 1; print 2; if ;
  TokenSource("malformed_two_apart",
    << T_VAR, T_EQUAL, NumTok(1), T_SEMICOLON, T_PRINT, NumTok(2), T_SEMICOLON,
       T_IF, T_SEMICOLON >>),
  \* { print 1; var ; } fun () { }
  TokenSource("malformed_in_block",
    << T_LEFT_BRACE, T_PRINT, NumTok(1), T_SEMICOLON, T_VAR, T_SEMICOLON, T_RIGHT_BRACE,
       T_FUN, T_LEFT_PAREN, T_RIGHT_PAREN, T_LEFT_BRACE, T_RIGHT_BRACE >>),
  \* { print 1;
  TokenSource("malformed_open_block", << T_LEFT_BRACE, T_PRINT, NumTok(1), T_SEMICOLON >>)
>>

\* Well-formed sources.
ParsedSources == <<
  \* fun counter() { var i = 0; fun inc() { i = i + 1; return i; } return inc; }
  \* var c = counter(); print c(); print c();
  TokenSource("counter_tokens",
    << T_FUN, Ident("counter"), T_LEFT_PAREN, T_RIGHT_PAREN, T_LEFT_BRACE,
       T_VAR, Ident("i"), T_EQUAL, NumTok(0), T_SEMICOLON,
       T_FUN, Ident("inc"), T_LEFT_PAREN, T_RIGHT_PAREN, T_LEFT_BRACE,
       Ident("i"), T_EQUAL, Ident("i"), T_PLUS, NumTok(1), T_SEMICOLON,
       T_RETURN, Ident("i"), T_SEMICOLON, T_RIGHT_BRACE,
       T_RETURN, Ident("inc"), T_SEMICOLON, T_RIGHT_BRACE,
       T_VAR, Ident("c"), T_EQUAL, Ident("counter"), T_LEFT_PAREN, T_RIGHT_PAREN, T_SEMICOLON,
       T_PRINT, Ident("c"), T_LEFT_PAREN, T_RIGHT_PAREN, T_SEMICOLON,
       T_PRINT, Ident("c"), T_LEFT_PAREN, T_RIGHT_PAREN, T_SEMICOLON >>),
  \* fun add(a, b) { return a + b; } print add(1, 2);
  \* if (!(1 == 2) and true or nil) print -1 * 2 - 3 <= 0; else print "no";
  \* while (false) print 0;
  TokenSource("grammar",
    << T_FUN, Ident("add"), T_LEFT_PAREN, Ident("a"), T_COMMA, Ident("b"), T_RIGHT_PAREN,
       T_LEFT_BRACE, T_RETURN, Ident("a"), T_PLUS, Ident("b"), T_SEMICOLON, T_RIGHT_BRACE,
       T_PRINT, Ident("add"), T_LEFT_PAREN, NumTok(1), T_COMMA, NumTok(2), T_RIGHT_PAREN,
       T_SEMICOLON,
       T_IF, T_LEFT_PAREN, Tk("BANG"), T_LEFT_PAREN, NumTok(1), Tk("EQUAL_EQUAL"), NumTok(2),
       T_RIGHT_PAREN, Tk("AND"), Tk("TRUE"), Tk("OR"), Tk("NIL"), T_RIGHT_PAREN,
       T_PRINT, Tk("MINUS"), NumTok(1), Tk("STAR"), NumTok(2), Tk("MINUS"), NumTok(3),
       Tk("LESS_EQUAL"), NumTok(0), T_SEMICOLON,
       Tk("ELSE"), T_PRINT, StrTok("no"), T_SEMICOLON,
       Tk("WHILE"), T_LEFT_PAREN, Tk("FALSE"), T_RIGHT_PAREN, T_PRINT, NumTok(0), T_SEMICOLON >>)
>>

\* A bare return, from its tokens.
ReturnTokenSources == <<
  \* fun f() { print 1; return; print 2; } print f();
  TokenSource("return_bare_tokens",
    << T_FUN, Ident("f"), T_LEFT_PAREN, T_RIGHT_PAREN, T_LEFT_BRACE,
       T_PRINT, NumTok(1), T_SEMICOLON, T_RETURN, T_SEMICOLON,
       T_PRINT, NumTok(2), T_SEMICOLON, T_RIGHT_BRACE,
       T_PRINT, Ident("f"), T_LEFT_PAREN, T_RIGHT_PAREN, T_SEMICOLON >>)
>>

TokenSources == ForSources \o ReturnTokenSources \o ReportedSources \o CapSources \o MalformedSources \o ParsedSources

Names(sources) == {sources[i].name : i \in 1..Len(sources)}

\* ----------------------------------------------------------------- Lox::run
VARIABLES
  source,            \* the name of the source being run
  tokens,            \* the tokens the scanner returned for it
  current,           \* Parser.current
  reports,           \* the lines Lox::report wrote to standard error
  statements,        \* the statement list the parser returned for it
  pc,                \* where Lox::run stands: parse, run, resolve, interpret, done
  idx,               \* the next statement of the loop of resolve_statements / interpret
  scopes,            \* Resolver.scopes
  current_function,  \* Resolver.current_function
  locals,            \* the interpreter's binding table
  stdout,            \* the lines written to standard output
  envs,              \* the heap of environments
  environment,       \* Interpreter.environment
  allocs,            \* callable values allocated
  steps,             \* statements executed
  blockLog,          \* one entry per execute_block that returned
  callLog,           \* one entry per LoxFunction::call that returned
  had_error,         \* Lox.had_error
  result,            \* how the run ended: "" (running), Ok, ParseError,
                     \* RuntimeError, ReturnValue, Diverge
  message,           \* the message of the error the run ended with
  called,            \* the last direct call of an Environment method
  scanner,           \* the Scanner
  session            \* the names of the lines run_prompt has run, in order

vars == <<source, tokens, current, reports, statements, pc, idx, scopes, current_function, locals, stdout,
          envs, environment, allocs, steps, blockLog, callLog, had_error, result,
          message, called, scanner, session>>

\* Interpreter::new: globals holds clock, and is the current environment.
InterpreterNew ==
  /\ envs = << [enclosing |-> 0, values |-> ("clock" :> Clock)] >>
  /\ environment = Globals
  /\ locals = <<>>
  /\ allocs = 0
  /\ steps = 0
  /\ blockLog = <<>>
  /\ callLog = <<>>

\* A call of an Environment method: the environment it is called on, its
\* arguments, the heap before it, and what it returned.
Call(method, env, name, value, before, ok, got, msg) ==
  [method |-> method, env |-> env, name |-> name, value |-> value,
   before |-> before, ok |-> ok, got |-> got, msg |-> msg]

NoCall == Call("none", 0, "", NIL, <<>>, TRUE, NIL, "")

\* A run starts with the tokens of a source at Parser::new, or, for a
\* source given as its statement list, where parse has returned Ok.
Init ==
  /\ \/ \E i \in 1..Len(Sources) :
          /\ source = Sources[i].name
          /\ statements = Sources[i].stmts
          /\ tokens = <<>>
          /\ pc = "run"
     \/ \E i \in 1..Len(TokenSources) :
          /\ source = TokenSources[i].name
          /\ statements = <<>>
          /\ tokens = TokenSources[i].tokens
          /\ pc = "parse"
  /\ current = 1
  /\ reports = <<>>
  /\ idx = 1
  /\ scopes = <<>>
  /\ current_function = "NONE"
  /\ stdout = <<>>
  /\ had_error = FALSE
  /\ result = ""
  /\ message = ""
  /\ called = NoCall
  /\ session = <<>>
  /\ scanner = ScannerNew(<<>>)
  /\ InterpreterNew

TheResolver ==
  [scopes |-> scopes, current_function |-> current_function, locals |-> locals,
   out |-> stdout, err |-> ""]

TheInterpreter(now) ==
  [envs |-> envs, environment |-> environment, out |-> stdout, allocs |-> allocs,
   steps |-> steps, clock |-> now, blockLog |-> blockLog, callLog |-> callLog]

TheParser ==
  [tokens |-> tokens, current |-> current, reports |-> reports, panicked |-> FALSE]

InterpreterVars == <<envs, environment, allocs, steps, blockLog, callLog>>
ResolverVars == <<scopes, current_function>>
ParserVars == <<tokens, current>>

\* One iteration of the loop of Parser::parse; an Err ends parse, goes to
\* Lox::error and ends the run.
ParseDeclaration ==
  /\ pc = "parse"
  /\ ~is_at_end(TheParser)
  /\ \E d \in {declaration(TheParser)} :
        /\ current' = d.p.current
        /\ IF d.p.panicked
             THEN /\ pc' = "done"
                  /\ result' = "Panic"
                  /\ message' = "index out of bounds"
                  /\ UNCHANGED <<statements, reports>>
             ELSE IF d.ok
             THEN /\ statements' = Append(statements, d.node)
                  /\ reports' = d.p.reports
                  /\ UNCHANGED <<pc, result, message>>
             ELSE /\ reports' = Append(d.p.reports, Report("parser", d.err))
                  /\ pc' = "done"
                  /\ result' = "ParseError"
                  /\ message' = d.err
                  /\ UNCHANGED statements
  /\ had_error' = (reports' # <<>>)
  /\ UNCHANGED <<source, called, scanner, session, tokens, idx, ResolverVars, locals, stdout, InterpreterVars>>

\* Parser::parse returned Ok(statements).
ParseReturned ==
  /\ pc = "parse"
  /\ is_at_end(TheParser)
  /\ pc' = "run"
  /\ UNCHANGED <<source, called, scanner, session, ParserVars, reports, statements, idx, ResolverVars, locals,
                 stdout, InterpreterVars, had_error, result, message>>

\* Lox::run up to Resolver::new (the statements are the parser's result).
Run ==
  /\ pc = "run"
  /\ pc' = "resolve"
  /\ idx' = 1
  /\ scopes' = <<>>
  /\ current_function' = "NONE"
  /\ UNCHANGED <<source, called, scanner, session, ParserVars, reports, statements, locals, stdout,
                 InterpreterVars, had_error, result, message>>

\* One iteration of the loop of resolve_statements on the top-level list;
\* an Err goes to Lox::error and ends the run.
ResolveStatement ==
  /\ pc = "resolve"
  /\ idx <= Len(statements)
  /\ \E r \in {resolve_stmt(TheResolver, statements[idx])} :
        /\ scopes' = r.scopes
        /\ current_function' = r.current_function
        /\ locals' = r.locals
        /\ stdout' = r.out
        /\ IF r.err # ""
             THEN /\ pc' = "done"
                  /\ had_error' = TRUE
                  /\ result' = "ParseError"
                  /\ message' = r.err
                  /\ reports' = Append(reports, Report("resolver", r.err))
                  /\ idx' = idx
             ELSE /\ idx' = idx + 1
                  /\ UNCHANGED <<pc, had_error, result, message, reports>>
  /\ UNCHANGED <<source, called, scanner, session, ParserVars, statements, InterpreterVars>>

\* resolve_statements returned Ok: Lox::run goes on to Interpreter::interpret.
ResolveOk ==
  /\ pc = "resolve"
  /\ idx > Len(statements)
  /\ pc' = "interpret"
  /\ idx' = 1
  /\ UNCHANGED <<source, called, scanner, session, ParserVars, reports, statements, ResolverVars, locals,
                 stdout, InterpreterVars, had_error, result, message>>

\* One iteration of the loop of Interpreter::interpret; an Err ends the run
\* in Lox::error.
InterpretStatement ==
  /\ pc = "interpret"
  /\ idx <= Len(statements)
  /\ \E now \in 0..MaxClock :
       \E r \in {execute(TheInterpreter(now), statements[idx])} :
          /\ envs' = r.st.envs
          /\ environment' = r.st.environment
          /\ stdout' = r.st.out
          /\ allocs' = r.st.allocs
          /\ steps' = r.st.steps
          /\ blockLog' = r.st.blockLog
          /\ callLog' = r.st.callLog
          /\ IF r.res # "Ok"
               THEN /\ pc' = "done"
                    /\ result' = r.res
                    /\ message' = r.msg
                    /\ had_error' = (had_error \/ r.res = "RuntimeError")
                    /\ reports' = IF r.res = "RuntimeError"
                                    THEN Append(reports, Report("interpreter", r.msg))
                                    ELSE reports
                    /\ idx' = idx
               ELSE /\ idx' = idx + 1
                    /\ UNCHANGED <<pc, had_error, result, message, reports>>
  /\ UNCHANGED <<source, called, scanner, session, ParserVars, statements, ResolverVars, locals>>

\* Interpreter::interpret returned Ok.
InterpretOk ==
  /\ pc = "interpret"
  /\ idx > Len(statements)
  /\ pc' = "done"
  /\ result' = "Ok"
  /\ UNCHANGED <<source, called, scanner, session, ParserVars, reports, statements, idx, ResolverVars, locals,
                 stdout, InterpreterVars, had_error, message>>

Next ==
  \/ ParseDeclaration \/ ParseReturned
  \/ Run \/ ResolveStatement \/ ResolveOk \/ InterpretStatement \/ InterpretOk

Spec == Init /\ [][Next]_vars

\* The lines the program's print statements wrote, in order.
RECURSIVE Printed(_)
Printed(out) ==
  IF out = <<>> THEN <<>>
  ELSE IF out[1].src = "print" THEN <<out[1].text>> \o Printed(Tail(out))
  ELSE Printed(Tail(out))

NoDiverge == result # "Diverge"

Done == pc = "done"

\* The binding table a resolver that follows static scope yields for the
\* DistanceSources: node id -> scopes between the reference and the
\* declaration (no entry for a name declared in no enclosing scope).
ExpectedDistances ==
  [distance_nested |-> (1 :> 1) @@ (2 :> 1) @@ (3 :> 0) @@ (5 :> 1) @@ (6 :> 0)
                       @@ (7 :> 1) @@ (8 :> 3) @@ (9 :> 1),
   distance_call |-> (1 :> 0) @@ (2 :> 0) @@ (3 :> 0),
   distance_callee |-> (1 :> 1)]

\* ------------------------------------------------- the Environment methods
\* The methods of Environment called directly, on a heap that starts as
\* the interpreter's (the globals) and grows by Environment::new into a
\* chain of nested environments.
EnvNames == {"x", "y"}
EnvValues == {NUMBER(1), NUMBER(2)}

EnvInit ==
  /\ source = "environment"
  /\ statements = <<>>
  /\ tokens = <<>>
  /\ pc = "environment"
  /\ current = 1
  /\ reports = <<>>
  /\ idx = 1
  /\ scopes = <<>>
  /\ current_function = "NONE"
  /\ stdout = <<>>
  /\ had_error = FALSE
  /\ result = ""
  /\ message = ""
  /\ called = NoCall
  /\ session = <<>>
  /\ scanner = ScannerNew(<<>>)
  /\ InterpreterNew

EnvFrame ==
  <<source, tokens, current, reports, statements, pc, idx, scopes, current_function,
    locals, stdout, environment, allocs, steps, blockLog, callLog, had_error, result,
    message, scanner, session>>

\* Environment::new(Some(enclosing)), the newest environment enclosing, as
\* on the entry of a block nested in the last one.
CallNew ==
  /\ Len(envs) < MaxEnvs
  /\ \E enclosing \in {Len(envs)} :
       /\ envs' = EnvironmentNew(envs, enclosing)
       /\ called' = Call("new", Len(envs) + 1, "", NIL, envs, TRUE, NIL, "")
  /\ UNCHANGED EnvFrame

CallDefine ==
  /\ \E env \in 1..Len(envs), name \in EnvNames, value \in EnvValues :
       /\ envs' = EnvironmentDefine(envs, env, name, value)
       /\ called' = Call("define", env, name, value, envs, TRUE, NIL, "")
  /\ UNCHANGED EnvFrame

CallAssign ==
  /\ \E env \in 1..Len(envs), name \in EnvNames, value \in EnvValues :
       \E a \in {EnvironmentAssign(envs, env, name, value)} :
         /\ envs' = a.envs
         /\ called' = Call("assign", env, name, value, envs, a.ok, NIL, a.msg)
  /\ UNCHANGED EnvFrame

CallGet ==
  /\ \E env \in 1..Len(envs), name \in EnvNames :
       \E g \in {EnvironmentGet(envs, env, name)} :
         called' = Call("get", env, name, NIL, envs, g.ok, g.value, g.msg)
  /\ UNCHANGED <<envs, EnvFrame>>

EnvNext == CallNew \/ CallDefine \/ CallAssign \/ CallGet

EnvSpec == EnvInit /\ [][EnvNext]_vars

\* The environments from env outward, env first.
RECURSIVE Chain(_, _)
Chain(heap, env) ==
  IF env = 0 THEN <<>> ELSE <<env>> \o Chain(heap, heap[env].enclosing)

Binds(heap, env, name) == name \in DOMAIN heap[env].values

\* The heap after differs from the heap before in nothing but the value of
\* name in env.
OnlyBindingChanged(before, after, env, name) ==
  /\ Len(after) = Len(before)
  /\ \A e \in 1..Len(before) :
       /\ after[e].enclosing = before[e].enclosing
       /\ \A n \in (DOMAIN before[e].values) \cup (DOMAIN after[e].values) :
            (e # env \/ n # name) =>
              /\ n \in DOMAIN before[e].values /\ n \in DOMAIN after[e].values
              /\ after[e].values[n] = before[e].values[n]

\* ---------------------------------------------------- Scanner::scan_tokens
\* scan_tokens on every source of up to MaxSource bytes drawn from
\* ScanBytes: punctuation, the bytes of the two-byte operators, of comments,
\* strings, numbers with a fraction, the keyword or and identifiers, white
\* space, the newline, and a byte no token starts with.
ScanBytes == {"(", "=", "/", " ", "\n", "\"", "1", ".", "o", "r", "@"}

Buffers == UNION {[1..n -> ScanBytes] : n \in 0..MaxSource}

ScanFrame ==
  <<source, tokens, current, reports, statements, idx, scopes, current_function,
    locals, stdout, envs, environment, allocs, steps, blockLog, callLog, had_error,
    called, session>>

ScanInit ==
  /\ source = "scanner"
  /\ statements = <<>>
  /\ tokens = <<>>
  /\ pc = "scan"
  /\ current = 1
  /\ reports = <<>>
  /\ idx = 1
  /\ scopes = <<>>
  /\ current_function = "NONE"
  /\ stdout = <<>>
  /\ had_error = FALSE
  /\ result = ""
  /\ message = ""
  /\ called = NoCall
  /\ session = <<>>
  /\ InterpreterNew
  /\ \E bytes \in Buffers : scanner = ScannerNew(bytes)

\* One iteration of the loop of scan_tokens; an Err ends the scan.
ScanToken ==
  /\ pc = "scan"
  /\ ~Scanner_is_at_end(scanner)
  /\ \E next \in {scan_token([scanner EXCEPT !.start = scanner.current])} :
       /\ scanner' = next
       /\ IF next.ok THEN UNCHANGED <<pc, result, message>>
          ELSE /\ pc' = "done"
               /\ result' = "ScanError"
               /\ message' = next.err.message
  /\ UNCHANGED ScanFrame

\* The end of the loop: the EOF token and Ok(()).
ScanEnd ==
  /\ pc = "scan"
  /\ Scanner_is_at_end(scanner)
  /\ scanner' = push_eof(scanner)
  /\ pc' = "done"
  /\ result' = "Ok"
  /\ UNCHANGED <<message, ScanFrame>>

ScanNext == ScanToken \/ ScanEnd

ScanSpec == ScanInit /\ [][ScanNext]_vars

\* ------------------------------------------------------- the prompt loop
\* Lox::run_prompt: the lines of a session are run one after the other on
\* the one interpreter of the Lox.
MaxLines == 3

PromptLine(text) == [src |-> "prompt", text |-> text]

\* The lines a session is made of.
ReplSources == <<
  \* var a = 1;
  Source("define_a", << Var("a", Some(Num(1))) >>),
  \* a = a + 1; { var b = a; { print b; print nope; } } print "unreached";
  Source("bump_fails",
    << Expression(Assign(1, "a", Binary(Variable(2, "a"), "PLUS", Num(1)))),
       Block(<< Var("b", Some(Variable(3, "a"))),
                Block(<< PrintStmt(Variable(4, "b")),
                         PrintStmt(Variable(5, "nope")) >>) >>),
       PrintStmt(Text("unreached")) >>),
  \* fun f() { a = a + 10; { print missing; } } { f(); } print "unreached";
  Source("call_fails",
    << Function("f", <<>>,
         << Expression(Assign(1, "a", Binary(Variable(2, "a"), "PLUS", Num(10)))),
            Block(<< PrintStmt(Variable(3, "missing")) >>) >>),
       Block(<< Expression(CallExpr(Variable(4, "f"), <<>>)) >>),
       PrintStmt(Text("unreached")) >>),
  \* print a;
  Source("print_a", << PrintStmt(Variable(1, "a")) >>),
  \* { var a = 100; print a; }
  Source("shadow_a",
    << Block(<< Var("a", Some(Num(100))), PrintStmt(Variable(1, "a")) >>) >>)
>>

ReplTokenSources == <<
  \* var a = 5;
  TokenSource("define_a_tokens",
    << T_VAR, Ident("a"), T_EQUAL, NumTok(5), T_SEMICOLON >>)
>>

\* run_prompt has written its banner; Lox::new has made the interpreter.
ReplInit ==
  /\ source = ""
  /\ statements = <<>>
  /\ tokens = <<>>
  /\ pc = "prompt"
  /\ current = 1
  /\ reports = <<>>
  /\ idx = 1
  /\ scopes = <<>>
  /\ current_function = "NONE"
  /\ stdout = << PromptLine("Lox tree-walk interpreter") >>
  /\ had_error = FALSE
  /\ result = ""
  /\ message = ""
  /\ called = NoCall
  /\ session = <<>>
  /\ scanner = ScannerNew(<<>>)
  /\ InterpreterNew

\* One iteration of the loop of run_prompt up to the call of Lox::run, for
\* a line that is not empty: the prompt is written, the line read and given
\* to Lox::run, which starts on it with the interpreter as the last run
\* left it.
ReadLine ==
  /\ pc = "prompt"
  /\ Len(session) < MaxLines
  /\ \/ \E i \in 1..Len(ReplSources) :
          /\ source' = ReplSources[i].name
          /\ statements' = ReplSources[i].stmts
          /\ tokens' = <<>>
          /\ pc' = "run"
     \/ \E i \in 1..Len(ReplTokenSources) :
          /\ source' = ReplTokenSources[i].name
          /\ statements' = <<>>
          /\ tokens' = ReplTokenSources[i].tokens
          /\ pc' = "parse"
  /\ session' = Append(session, source')
  /\ stdout' = Append(stdout, PromptLine("> "))
  /\ current' = 1
  /\ idx' = 1
  /\ result' = ""
  /\ message' = ""
  /\ steps' = 0
  /\ UNCHANGED <<called, scanner, reports, ResolverVars, locals, envs, environment,
                 allocs, blockLog, callLog, had_error>>

\* Lox::run returned: `self.had_error = false`, and the loop goes round.
RunReturned ==
  /\ pc = "done"
  /\ pc' = "prompt"
  /\ had_error' = FALSE
  /\ UNCHANGED <<source, called, scanner, session, ParserVars, reports, statements,
                 idx, ResolverVars, locals, stdout, InterpreterVars, result, message>>

\* The iteration that reads an empty line: "Exit" is written and the loop
\* left.
ReadEnd ==
  /\ pc = "prompt"
  /\ pc' = "exit"
  /\ stdout' = stdout \o << PromptLine("> "), PromptLine("Exit") >>
  /\ UNCHANGED <<source, called, scanner, session, ParserVars, reports, statements,
                 idx, ResolverVars, locals, InterpreterVars, had_error, result, message>>

ReplNext ==
  \/ ReadLine \/ RunReturned \/ ReadEnd
  \/ ParseDeclaration \/ ParseReturned
  \/ Run \/ ResolveStatement \/ ResolveOk \/ InterpretStatement \/ InterpretOk

ReplSpec == ReplInit /\ [][ReplNext]_vars

\* ------------------------------------------------------------ the parser
\* Parser::parse on every token list of up to MaxTokens tokens of
\* ParseTokens followed by EOF.
MaxTokens == 4

ParseTokens ==
  {T_SEMICOLON, T_LEFT_BRACE, T_RIGHT_BRACE, T_LEFT_PAREN, T_RIGHT_PAREN, T_COMMA,
   T_PLUS, T_PRINT, Ident("a")}

TokenLists ==
  UNION {[1..n -> ParseTokens] : n \in 0..MaxTokens}

ParseInit ==
  /\ source = "parser"
  /\ statements = <<>>
  /\ \E list \in TokenLists : tokens = list \o <<Tk("EOF")>>
  /\ pc = "parse"
  /\ current = 1
  /\ reports = <<>>
  /\ idx = 1
  /\ scopes = <<>>
  /\ current_function = "NONE"
  /\ stdout = <<>>
  /\ had_error = FALSE
  /\ result = ""
  /\ message = ""
  /\ called = NoCall
  /\ session = <<>>
  /\ scanner = ScannerNew(<<>>)
  /\ InterpreterNew

ParseNext == ParseDeclaration \/ ParseReturned

\* parse runs on one thread, from its call to its return: an iteration
\* that can be taken is taken.
ParseSpec == ParseInit /\ [][ParseNext]_vars /\ WF_vars(ParseNext)

\* The parser at the token c of the list being parsed.
ParserAt(c) ==
  [tokens |-> tokens, current |-> c, reports |-> <<>>, panicked |-> FALSE]

\* The lexical mode at each byte of a source, read off the bytes: i is the
\* next byte (1-based).  The result: the mode at the end of the source, or
\* the index of the first byte in code that no token starts with.
RECURSIVE LexicalWalk(_, _, _)
LexicalWalk(bytes, i, mode) ==
  IF i > Len(bytes) THEN [mode |-> mode, illegal |-> 0]
  ELSE CASE mode = "comment" ->
              LexicalWalk(bytes, i + 1, IF bytes[i] = "\n" THEN "code" ELSE "comment")
         [] mode = "string" ->
              LexicalWalk(bytes, i + 1, IF bytes[i] = "\"" THEN "code" ELSE "string")
         [] mode = "code" ->
              IF bytes[i] = "/" /\ i < Len(bytes) /\ bytes[i + 1] = "/"
                THEN LexicalWalk(bytes, i + 2, "comment")
              ELSE IF bytes[i] = "\"" THEN LexicalWalk(bytes, i + 1, "string")
              ELSE IF bytes[i] = "@" THEN [mode |-> "code", illegal |-> i]
              ELSE LexicalWalk(bytes, i + 1, "code")

Lexical(bytes) == LexicalWalk(bytes, 1, "code")

Newlines(bytes) == Cardinality({i \in 1..Len(bytes) : bytes[i] = "\n"})

\* The lexemes occur in the bytes from index i on, one after the other.
RECURSIVE InOrder(_, _, _, _)
InOrder(toks, k, bytes, i) ==
  IF k > Len(toks) THEN TRUE
  ELSE \E j \in i..(Len(bytes) + 1) :
         /\ j + Len(toks[k].lexeme) - 1 <= Len(bytes)
         /\ SubSeq(bytes, j, j + Len(toks[k].lexeme) - 1) = toks[k].lexeme
         /\ InOrder(toks, k + 1, bytes, j + Len(toks[k].lexeme))

\* ------------------------------------------------------------------ claims

\* C1: a call of a user function binds the parameters in a new environment
\* whose enclosing environment is the function's closure, and leaves the
\* bindings of the closure environment as they were.
C1_CallBindsInNewEnvironment ==
  \A i \in 1..Len(callLog) :
    /\ callLog[i].environment # callLog[i].closure
    /\ callLog[i].enclosing = callLog[i].closure
    /\ callLog[i].bound = callLog[i].before

\* C2: a function declared in a block that reads a name declared only in
\* the global scope at its definition reads the global binding in every
\* call, also after the block declares the name itself: static_scope prints
\* global twice.
C2_StaticScope ==
  (Done /\ source = "static_scope") => Printed(stdout) = <<"global", "global">>

\* C3: every execute_block and every user-function call, whether it ended
\* Ok, with a RuntimeError or with the return signal, leaves the current
\* environment the one that was current when it was entered.
C3_EnvironmentRestored ==
  /\ \A i \in 1..Len(blockLog) : blockLog[i].after = blockLog[i].previous
  /\ \A i \in 1..Len(callLog) : callLog[i].after = callLog[i].caller

\* C3 witness: a block entered from a non-global environment and a
\* function call have both ended with a RuntimeError.
C3_Witness ==
  /\ \E i \in 1..Len(blockLog) :
       blockLog[i].outcome = "RuntimeError" /\ blockLog[i].previous # Globals
  /\ \E i \in 1..Len(callLog) :
       callLog[i].outcome = "RuntimeError" /\ callLog[i].caller # Globals

\* C4: no run ends with the return signal: a source with a return outside
\* a function fails resolution, and the signal of every other return is
\* turned into the result of the call whose body raised it.
C4_NoReturnAtTopLevel ==
  /\ result # "ReturnValue"
  /\ \A i \in 1..Len(callLog) :
       /\ callLog[i].result # "ReturnValue"
       /\ callLog[i].outcome = "ReturnValue" =>
            callLog[i].result = "Ok" /\ callLog[i].returned = callLog[i].raised

\* C4 witness: a run has ended Ok in which the body of a call raised the
\* return signal.
C4_Witness ==
  /\ Done /\ result = "Ok"
  /\ \E i \in 1..Len(callLog) : callLog[i].outcome = "ReturnValue"

\* C5: a closure shares its defining environment: the assignments a
\* closure makes are seen by its later calls (counter prints 1, 2;
\* block_closure prints 1, 2, 3), and an assignment made to the defining
\* environment after the declaration is seen by the closure (late_binding
\* prints 2).
C5_ClosureShared ==
  Done =>
    /\ source = "counter" => Printed(stdout) = <<"1", "2">>
    /\ source = "block_closure" => Printed(stdout) = <<"1", "2", "3">>
    /\ source = "late_binding" => Printed(stdout) = <<"2">>

\* C5 witness: the run of counter has ended Ok after two calls of inc.
C5_Witness ==
  /\ Done /\ source = "counter" /\ result = "Ok"
  /\ Len(callLog) = 3

\* C6 as stated: shadow_init raises no error and prints 2 then 1.
C6_ShadowInitRuns ==
  (Done /\ source = "shadow_init") =>
    result = "Ok" /\ Printed(stdout) = <<"2", "1">>

\* C6 as amended: shadow_init fails resolution with the self-reference
\* error and no statement of it is executed; shadow_other, whose block
\* declares another name with the same initializer, prints 2 then 1 and
\* leaves the global a at 1.
C6_ShadowInitRejected ==
  Done =>
    /\ source = "shadow_init" =>
         /\ result = "ParseError" /\ message = ErrOwnInitializer
         /\ steps = 0 /\ Printed(stdout) = <<>>
    /\ source = "shadow_other" =>
         /\ result = "Ok" /\ Printed(stdout) = <<"2", "1">>
         /\ envs[Globals].values["a"] = NUMBER(1)

\* C6 witness: the run of shadow_init has ended.
C6_Witness == Done /\ source = "shadow_init" /\ had_error

\* C7 as stated: var a = a; at global scope fails resolution and no
\* statement is executed.
C7_GlobalSelfRefRejected ==
  (Done /\ source \in {"global_selfref", "global_selfref_print"}) =>
    result = "ParseError" /\ steps = 0

\* C7 as amended: at global scope var a = a; passes resolution, is executed
\* and ends in the RuntimeError for the undefined a, with no a defined; in
\* a block it fails resolution and no statement of the source is executed.
C7_SelfRefGlobalRunsBlockRejected ==
  Done =>
    /\ source \in {"global_selfref", "global_selfref_print"} =>
         /\ result = "RuntimeError" /\ message = ErrUndefined("a")
         /\ steps > 0
         /\ "a" \notin DOMAIN envs[Globals].values
    /\ source = "block_selfref_print" =>
         /\ result = "ParseError" /\ message = ErrOwnInitializer
         /\ steps = 0 /\ Printed(stdout) = <<>>

\* C7 witness: the run of print 1; var a = a; print 2; has ended after
\* its first statement printed.
C7_Witness ==
  Done /\ source = "global_selfref_print" /\ Printed(stdout) = <<"1">>

\* C8: var x = e in a block or function scope fails resolution with the
\* self-reference error wherever e reads x.
C8_SelfRefAnywhereRejected ==
  (Done /\ source \in Names(SelfRefSources)) =>
    result = "ParseError" /\ message = ErrOwnInitializer

\* C9: after a successful resolution the binding table holds, for every
\* Variable and Assign node whose name an enclosing block or function
\* scope declares, the number of scopes between reference and declaration.
C9_DistancesRecorded ==
  (pc \in {"interpret", "done"} /\ result # "ParseError"
     /\ source \in DOMAIN ExpectedDistances) =>
    locals = ExpectedDistances[source]

\* C10: resolution fails when one block or function scope declares a name
\* twice, and does not fail when the second declaration is in a nested
\* scope or both are global.
C10_DuplicateDeclaration ==
  Done =>
    /\ source \in Names(DuplicateSources) =>
         result = "ParseError" /\ message = ErrAlreadyDeclared /\ steps = 0
    /\ source \in Names(RedeclareSources) => result = "Ok"

\* C10 witness: the run of fun f(a) { var a; } has ended.
C10_Witness == Done /\ source = "dup_param_var" /\ had_error

\* A return statement of the statement s that is lexically inside no
\* function body.
RECURSIVE StrayReturn(_)
StrayReturn(s) ==
  CASE s.t = "Return" -> TRUE
    [] s.t = "Block" -> \E i \in 1..Len(s.statements) : StrayReturn(s.statements[i])
    [] s.t = "If" ->
         \/ StrayReturn(s.then_branch)
         \/ s.else_branch # <<>> /\ StrayReturn(s.else_branch[1])
    [] s.t = "While" -> StrayReturn(s.body)
    [] OTHER -> FALSE

\* C11: resolution fails with the top-level-return error for every source
\* with a return that is in no function body (in a top-level block, if,
\* else or while, or after a complete function declaration), and passes
\* for every source whose returns are all inside function bodies, at any
\* depth and also in an outer function after a nested declaration.
C11_ReturnOutsideFunction ==
  (Done /\ source \in Names(ReturnSources) \cup Names(ReturnScopeSources)) =>
    IF \E i \in 1..Len(statements) : StrayReturn(statements[i])
      THEN result = "ParseError" /\ message = ErrTopLevelReturn
      ELSE result = "Ok"

\* C11 witness: the run of fun f() { return 1; } print f(); return; has
\* ended in the resolution error.
C11_Witness ==
  Done /\ source = "return_after_fun" /\ message = ErrTopLevelReturn

\* The reports the parser made.
ParserReports == SelectSeq(reports, LAMBDA e : e.src = "parser")

\* C12: once the parser has reported a ParseError for a source, the
\* non-fatal reports included, neither the resolver nor the interpreter
\* runs on it: no scope is resolved, no statement executed, nothing
\* written.
C12_ParseErrorStopsRun ==
  ParserReports # <<>> =>
    /\ pc \notin {"resolve", "interpret"}
    /\ steps = 0
    /\ stdout = <<>>

\* C13: the parse of a source with two malformed statements separated by a
\* statement boundary reports one ParseError for each of them.
C13_EachMalformedReported ==
  (Done /\ source \in {"malformed_two", "malformed_two_apart"}) =>
    Len(ParserReports) = 2

\* The statement lists the for-loops of the ForSources are to parse into.
ExpectedFor ==
  [for_basic |->
     << Block(<< Var("i", Some(Num(0))),
                 While(Binary(Variable(8, "i"), "LESS", Num(3)),
                       Block(<< PrintStmt(Variable(19, "i")),
                                Expression(Assign(12, "i",
                                  Binary(Variable(14, "i"), "PLUS", Num(1)))) >>)) >>) >>,
   for_no_init |->
     << Var("i", Some(Num(0))),
        While(Binary(Variable(9, "i"), "LESS", Num(2)),
              Block(<< PrintStmt(Variable(20, "i")),
                       Expression(Assign(13, "i",
                         Binary(Variable(15, "i"), "PLUS", Num(1)))) >>)) >>,
   for_no_inc |->
     << Block(<< Var("i", Some(Num(0))),
                 While(Binary(Variable(8, "i"), "LESS", Num(2)),
                       Block(<< PrintStmt(Variable(15, "i")),
                                Expression(Assign(17, "i",
                                  Binary(Variable(19, "i"), "PLUS", Num(1)))) >>)) >>) >>,
   for_no_cond |->
     << Function("f", <<>>,
          << Block(<< Var("i", Some(Num(0))),
                      While(True,
                            Block(<< Block(<< If(Binary(Variable(23, "i"),
                                                        "GREATER_EQUAL", Num(2)),
                                                 Return(Variable(28, "i")), None) >>),
                                     Expression(Assign(14, "i",
                                       Binary(Variable(16, "i"), "PLUS", Num(1)))) >>))
                   >>) >>),
        PrintStmt(CallExpr(Variable(33, "f"), <<>>)) >>,
   for_bare |->
     << Function("g", <<>>, << While(True, Return(Num(7))) >>),
        PrintStmt(CallExpr(Variable(16, "g"), <<>>)) >>]

\* What the runs of the ForSources are to print.
ExpectedForOutput ==
  [for_basic |-> <<"0", "1", "2">>, for_never |-> <<"end">>,
   for_no_init |-> <<"0", "1">>, for_no_inc |-> <<"0", "1">>,
   for_no_cond |-> <<"2">>, for_expr_init |-> <<"1", "2">>, for_bare |-> <<"7">>]

\* C14: for (init; cond; inc) body parses into
\* Block[init, While(cond, Block[body, inc])], with the literal true for an
\* omitted cond and without the block around the loop or the body when init
\* or inc is absent; its run executes init once, tests cond before every
\* iteration and runs inc after the body: for_basic prints 0, 1, 2.
C14_ForDesugared ==
  /\ (pc # "parse" /\ source \in DOMAIN ExpectedFor) =>
       statements = ExpectedFor[source]
  /\ (Done /\ source \in DOMAIN ExpectedForOutput) =>
       result = "Ok" /\ Printed(stdout) = ExpectedForOutput[source]

\* C14 witness: the run of for_basic has ended after three iterations.
C14_Witness ==
  Done /\ source = "for_basic" /\ Printed(stdout) = <<"0", "1", "2">>

\* The message each of the CallErrorSources, and arity of the ErrorSources,
\* is to end with.
ExpectedCallError ==
  [arity |-> "Expected 1 arguments but got 2.",
   arity_more |-> "Expected 1 arguments but got 2.",
   arity_fewer |-> "Expected 2 arguments but got 1.",
   arity_none |-> "Expected 0 arguments but got 1.",
   arity_in_block |-> "Expected 1 arguments but got 0.",
   arity_clock |-> "Expected 0 arguments but got 1.",
   call_string |-> ErrNotCallable, call_number |-> ErrNotCallable,
   call_nil |-> ErrNotCallable, call_bool |-> ErrNotCallable,
   not_callable |-> ErrNotCallable]

\* C15: a call whose callee is not a callable, or whose number of
\* arguments is not the callee's arity, ends in a RuntimeError, the one for
\* the arity naming the expected and the actual count; no call of a function
\* is made: no body statement is executed and no environment binds a
\* parameter.
C15_CallRefused ==
  (Done /\ source \in DOMAIN ExpectedCallError) =>
    /\ result = "RuntimeError" /\ message = ExpectedCallError[source]
    /\ callLog = <<>>
    /\ Printed(stdout) = <<>>
    /\ \A i \in 1..Len(envs) : DOMAIN envs[i].values \cap {"a", "b"} = {}

\* C15 witness: the run of fun f(a) { print "body"; } f(1, 2); has ended
\* after its call statement was executed.
C15_Witness ==
  Done /\ source = "arity_more" /\ steps = 2 /\ result = "RuntimeError"

\* For each of the HaltSources: the lines printed before the failure, the
\* value its last assignment before the failure gave the global a, the
\* number of statements whose execution had begun, and the names the
\* global environment holds next to clock.
ExpectedHalt ==
  [halt_top |-> [out |-> <<"1">>, a |-> 2, steps |-> 4, names |-> {"a"}],
   halt_in_block |-> [out |-> <<"2">>, a |-> 5, steps |-> 6, names |-> {"a"}],
   halt_in_function |-> [out |-> <<"2">>, a |-> 2, steps |-> 6, names |-> {"a", "f"}],
   halt_in_loop |-> [out |-> <<"0", "1">>, a |-> 2, steps |-> 11, names |-> {"a"}],
   halt_in_arguments |-> [out |-> <<>>, a |-> 1, steps |-> 3, names |-> {"a", "f"}],
   halt_before_var |-> [out |-> <<>>, a |-> 4, steps |-> 3, names |-> {"a", "g"}]]

\* C16: a RuntimeError ends the run with that error: no statement after
\* the point of failure is executed (at top level, in a block, in a function
\* body, in a loop, in the rest of an argument list), and what was printed,
\* defined and assigned before the failure stays as it was.
C16_RuntimeErrorHalts ==
  /\ (Done /\ source \in DOMAIN ExpectedHalt) =>
       /\ result = "RuntimeError"
       /\ Printed(stdout) = ExpectedHalt[source].out
       /\ steps = ExpectedHalt[source].steps
       /\ DOMAIN envs[Globals].values = ExpectedHalt[source].names \cup {"clock"}
       /\ envs[Globals].values["a"] = NUMBER(ExpectedHalt[source].a)
  /\ (Done /\ result = "RuntimeError") =>
       /\ idx <= Len(statements)
       /\ had_error
       /\ reports # <<>> /\ reports[Len(reports)] = Report("interpreter", message)

\* C16 witness: the run of halt_in_block has ended in the RuntimeError of
\* the fourth statement of its block, after the block printed 2.
C16_Witness ==
  /\ Done /\ source = "halt_in_block" /\ result = "RuntimeError"
  /\ Printed(stdout) = <<"2">>

\* C17: Environment::assign of a name bound nowhere in the chain returns
\* the RuntimeError Undefined variable and leaves the heap as it was, no
\* binding created; of a bound name it returns Ok and changes nothing but
\* the value of the name in the nearest environment of the chain, from the
\* one it is called on outward, that binds the name.
C17_AssignNearest ==
  called.method = "assign" =>
    LET chain == Chain(called.before, called.env)
        holders == {k \in 1..Len(chain) : Binds(called.before, chain[k], called.name)}
    IN IF holders = {}
         THEN /\ ~called.ok
              /\ called.msg = "Undefined variable '" \o called.name \o "'."
              /\ envs = called.before
         ELSE \E k \in holders :
                /\ \A j \in holders : k <= j
                /\ called.ok
                /\ Binds(envs, chain[k], called.name)
                /\ envs[chain[k]].values[called.name] = called.value
                /\ OnlyBindingChanged(called.before, envs, chain[k], called.name)

\* C17 witness: assign has been called on an environment that does not
\* bind the name, whose enclosing one binds it to another value, and whose
\* enclosing one in turn binds it too.
C17_Witness ==
  /\ called.method = "assign"
  /\ LET chain == Chain(called.before, called.env)
     IN /\ Len(chain) = 3
        /\ ~Binds(called.before, chain[1], called.name)
        /\ Binds(called.before, chain[2], called.name)
        /\ Binds(called.before, chain[3], called.name)
        /\ called.before[chain[2]].values[called.name] # called.value

\* C18: Environment::define changes nothing but the binding of the name
\* in the environment it is called on, also when an enclosing environment
\* binds the name; get of the name from that environment then returns the
\* defined value, and get from the enclosing environment returns what it
\* returned before.
C18_DefineLocal ==
  called.method = "define" =>
    /\ OnlyBindingChanged(called.before, envs, called.env, called.name)
    /\ EnvironmentGet(envs, called.env, called.name)
         = [ok |-> TRUE, value |-> called.value, msg |-> ""]
    /\ called.before[called.env].enclosing # 0 =>
         EnvironmentGet(envs, called.before[called.env].enclosing, called.name)
           = EnvironmentGet(called.before, called.before[called.env].enclosing,
                            called.name)

\* C18 witness: define has been called for a name the environment did not
\* bind and its enclosing one binds to another value.
C18_Witness ==
  /\ called.method = "define"
  /\ ~Binds(called.before, called.env, called.name)
  /\ called.before[called.env].enclosing # 0
  /\ Binds(called.before, called.before[called.env].enclosing, called.name)
  /\ called.before[called.before[called.env].enclosing].values[called.name]
       # called.value

\* What the runs of the LogicalSources are to print.
ExpectedLogical ==
  [logical_values |-> <<"hi", "yes", "nil", "nil", "zero", "2", "false", "">>,
   logical_short |-> <<"0", "0", "3", "4">>,
   logical_unevaluated |-> <<"true", "nil">>,
   logical_uncoerced |-> <<"2", "true", "bc">>,
   logical_chain |-> <<"<fn f >", "last", "nil">>]

\* C19: or returns its left operand when that is truthy and and returns
\* its left operand when that is falsey, in both cases without evaluating
\* the right operand; otherwise they return the value of the right
\* operand.  The value returned is the operand's own, never a boolean made
\* from it.
C19_LogicalOperands ==
  (Done /\ source \in DOMAIN ExpectedLogical) =>
    result = "Ok" /\ Printed(stdout) = ExpectedLogical[source]

\* C19 witness: the run of logical_short has ended, the right operands of
\* its first two logical expressions unevaluated and the last two evaluated.
C19_Witness ==
  /\ Done /\ source = "logical_short"
  /\ envs[Globals].values["a"] = NUMBER(4)

\* What the i-th of the OperatorSources is to end with: for two numbers
\* the number or boolean of the operation; for + on two strings their
\* concatenation; for every other pair of operand kinds the RuntimeError of
\* the operator, with v left undefined and nothing printed.
ExpectedOperator(i) ==
  LET c == OperatorCase(i)
      l == c.l.value
      r == c.r.value
      defined == "v" \in DOMAIN envs[Globals].values
      v == envs[Globals].values["v"]
  IN IF c.l.kind = "NUMBER" /\ c.r.kind = "NUMBER"
       THEN /\ result = "Ok" /\ defined /\ Printed(stdout) = <<"after">>
            /\ CASE c.op = "MINUS" -> v = NUMBER(l.n - r.n)
                 [] c.op = "STAR" -> v = NUMBER(l.n * r.n)
                 [] c.op = "PLUS" -> v = NUMBER(l.n + r.n)
                 [] c.op = "SLASH" ->
                      /\ v.k = "NUMBER"
                      /\ (l.n = 6 /\ r.n = 2) => v = NUMBER(3)
                      /\ l.n = r.n => v = NUMBER(1)
                 [] c.op = "GREATER" -> v = BOOL(l.n > r.n)
                 [] c.op = "GREATER_EQUAL" -> v = BOOL(l.n >= r.n)
                 [] c.op = "LESS" -> v = BOOL(l.n < r.n)
                 [] c.op = "LESS_EQUAL" -> v = BOOL(l.n <= r.n)
     ELSE IF c.op = "PLUS" /\ c.l.kind = "STRING" /\ c.r.kind = "STRING"
       THEN /\ result = "Ok" /\ defined /\ Printed(stdout) = <<"after">>
            /\ v = STRINGV(l.s \o r.s)
     ELSE /\ result = "RuntimeError" /\ ~defined /\ Printed(stdout) = <<>>
          /\ message = IF c.op = "PLUS" THEN "PLUS operand must be numbers or strings"
                       ELSE c.op \o " operands must be a number(s)"

\* C20: - * / > >= < <= end in a RuntimeError unless both operands are
\* numbers; + gives the sum of two numbers and the concatenation of two
\* strings and ends in a RuntimeError for every other pair of kinds (a
\* string with a number, with nil, with a boolean, with a callable): no
\* operand is converted.
C20_OperandKinds ==
  \A i \in 1..Len(OperatorSources) :
    (Done /\ source = OperatorSources[i].name) => ExpectedOperator(i)

\* C20 witness: the run of var v = "a" + 6; has ended in the RuntimeError.
C20_Witness ==
  Done /\ source = "PLUS_a_6" /\ result = "RuntimeError"

\* C21: scan_tokens ends either Ok, with the tokens in source order and
\* exactly one EOF token, the last one, or with a ScanError that carries a
\* line and a message; a source that ends inside a string literal ends with
\* the ScanError.
C21_ScanEndsWithEof ==
  (Done /\ source = "scanner") =>
    LET toks == scanner.tokens
    IN /\ \/ /\ result = "Ok" /\ scanner.ok
             /\ toks # <<>> /\ toks[Len(toks)].type = "EOF"
             /\ \A k \in 1..(Len(toks) - 1) : toks[k].type # "EOF"
             /\ InOrder(toks, 1, scanner.source, 1)
          \/ /\ result = "ScanError" /\ ~scanner.ok
             /\ scanner.err.line >= 1 /\ scanner.err.message # ""
             /\ \A k \in 1..Len(toks) : toks[k].type # "EOF"
       /\ Lexical(scanner.source).mode = "string" =>
            result = "ScanError" /\ scanner.err.message = "Unterminated string"

\* C21 witness: the scan of a source that ends inside a string begun on
\* its second line, after a token, has ended.
C21_Witness ==
  /\ Done /\ source = "scanner"
  /\ scanner.source = <<"(", "\n", "\"", "\n">>
  /\ scanner.err.line = 3 /\ Len(scanner.tokens) = 1

\* C22: the scan of a source with a byte in code (outside comments and
\* string literals) that no token starts with ends at the first such byte
\* with the ScanError Unexpected character., whose line is 1 plus the
\* newlines before the byte; every token pushed lies before the byte.
C22_FirstIllegalStops ==
  (Done /\ source = "scanner" /\ Lexical(scanner.source).illegal # 0) =>
    LET at == Lexical(scanner.source).illegal
    IN /\ result = "ScanError"
       /\ scanner.err.message = "Unexpected character."
       /\ scanner.err.line = 1 + Newlines(SubSeq(scanner.source, 1, at - 1))
       /\ scanner.current = at
       /\ InOrder(scanner.tokens, 1, SubSeq(scanner.source, 1, at - 1), 1)

\* C22 witness: a scan stopped at an illegal byte on the second line, with
\* a token before it and a byte after it.
C22_Witness ==
  /\ Done /\ source = "scanner"
  /\ scanner.source = <<"1", "\n", "@", "(">>
  /\ result = "ScanError"

\* C23: for every token of a successful scan, the scan of its lexeme alone
\* succeeds and yields one token of the same type and literal and then EOF,
\* only EOF for the EOF token.
C23_LexemeRescans ==
  (Done /\ source = "scanner" /\ result = "Ok") =>
    \A k \in 1..Len(scanner.tokens) :
      LET t == scanner.tokens[k]
          again == scan_tokens(ScannerNew(t.lexeme))
      IN /\ again.ok
         /\ IF t.type = "EOF" THEN Len(again.tokens) = 1
            ELSE /\ Len(again.tokens) = 2
                 /\ again.tokens[1].type = t.type
                 /\ again.tokens[1].literal = t.literal
                 /\ again.tokens[1].lexeme = t.lexeme
         /\ again.tokens[Len(again.tokens)].type = "EOF"

\* C23 witness: a successful scan that pushed a number with a fraction
\* after another token.
C23_Witness ==
  /\ Done /\ source = "scanner" /\ result = "Ok"
  /\ Len(scanner.tokens) = 3
  /\ scanner.tokens[2].type = "NUMBER" /\ Len(scanner.tokens[2].lexeme) = 3

\* The entries of the list of each source with a long list, and the
\* reports its parse is to make.
ExpectedCap ==
  [arguments_at_cap |-> [entries |-> 255, reports |-> 0],
   many_arguments |-> [entries |-> 256, reports |-> 1],
   arguments_two_over |-> [entries |-> 257, reports |-> 2],
   parameters_at_cap |-> [entries |-> 255, reports |-> 0],
   many_parameters |-> [entries |-> 256, reports |-> 1],
   parameters_two_over |-> [entries |-> 257, reports |-> 2]]

\* C24: a call with 255 arguments and a declaration with 255 parameters
\* parse with no report; with 256 or more the parser reports the error for
\* each entry beyond the cap, goes on through the list and yields the Call
\* or Function node with all its entries, and parse returns Ok.
C24_ListCap ==
  (pc \notin {"parse"} /\ source \in DOMAIN ExpectedCap) =>
    LET x == ExpectedCap[source]
        arguments == source \in {"arguments_at_cap", "many_arguments", "arguments_two_over"}
    IN /\ Len(ParserReports) = x.reports
       /\ \A k \in 1..Len(ParserReports) :
            ParserReports[k].text =
              IF arguments THEN "Can't have more than 255 arguments"
              ELSE "Can't have more than 255 parameters."
       /\ result # "ParseError"
       /\ Len(statements) = 2
       /\ IF arguments
            THEN /\ statements[2].t = "Expression" /\ statements[2].expr.t = "Call"
                 /\ Len(statements[2].expr.arguments) = x.entries
            ELSE /\ statements[1].t = "Function"
                 /\ Len(statements[1].params) = x.entries

\* C24 witness: the parse of the call with 257 arguments has returned.
C24_Witness ==
  pc = "run" /\ source = "arguments_two_over" /\ Len(ParserReports) = 2

\* C25: every line on standard output was written by an executed print
\* statement; a run that executes no print statement writes nothing.
C25_OnlyPrintWrites ==
  \A i \in 1..Len(stdout) : stdout[i].src = "print"

\* C26: an activation of a function reads its own argument for a
\* parameter after a call it made with another argument for a parameter of
\* that name has returned: activation_recursive prints 0, 1, 2 and
\* activation_other prints 1.
C26_OwnParameters ==
  Done =>
    /\ source = "activation_recursive" => Printed(stdout) = <<"0", "1", "2">>
    /\ source = "activation_other" => Printed(stdout) = <<"1">>

\* What the runs of the OrderSources are to print and to end with.
ExpectedOrder ==
  [order_call |-> [out |-> <<"callee", "1", "2", "body">>, message |-> ""],
   order_not_callable |->
     [out |-> <<"callee", "1", "2">>, message |-> "Can only call functions and classes."],
   order_arity |->
     [out |-> <<"1", "2", "3">>, message |-> "Expected 1 arguments but got 3."],
   order_argument_fails |->
     [out |-> <<"1">>, message |-> "Undefined variable 'missing'."],
   order_callee_fails |-> [out |-> <<>>, message |-> "Undefined variable 'missing'."]]

\* C27: a call evaluates its callee, then its arguments from left to
\* right, each once, and only then tests the callee and the arity: the
\* arguments of a refused call have printed, and a RuntimeError in an
\* argument or in the callee leaves the later arguments unevaluated and the
\* call unmade.
C27_CallOrder ==
  (Done /\ source \in DOMAIN ExpectedOrder) =>
    /\ Printed(stdout) = ExpectedOrder[source].out
    /\ message = ExpectedOrder[source].message
    /\ result = IF message = "" THEN "Ok" ELSE "RuntimeError"

\* C27 witness: the run of order_arity has ended in the arity error after
\* its three arguments printed.
C27_Witness ==
  /\ Done /\ source = "order_arity" /\ result = "RuntimeError"
  /\ Len(Printed(stdout)) = 3

\* What the runs of the ReturnDepthSources and of return_bare_tokens are
\* to print.
ExpectedReturn ==
  [return_in_blocks |-> <<"in", "v", "end">>,
   return_in_loop |-> <<"0", "1", "1">>,
   return_in_branches |-> <<"then", "else">>,
   return_bare_in_loop |-> <<"nil">>,
   return_not_executed |-> <<"body", "nil">>,
   return_bare_tokens |-> <<"1", "nil">>]

\* C28: a return executed inside nested blocks, if and while statements
\* of a function body ends the call there: no later statement of the body
\* and no further iteration runs, and the call yields the returned value,
\* nil for a bare return; a call whose body executes no return yields nil.
C28_ReturnEndsCall ==
  (Done /\ source \in DOMAIN ExpectedReturn) =>
    /\ result = "Ok"
    /\ Printed(stdout) = ExpectedReturn[source]
    /\ source = "return_bare_tokens" =>
         statements[1].body[2] = Return(Literal(NIL))

\* C28 witness: the run of return_in_loop has ended, the call having
\* returned from the second iteration of its loop.
C28_Witness ==
  /\ Done /\ source = "return_in_loop"
  /\ \E i \in 1..Len(callLog) :
       callLog[i].outcome = "ReturnValue" /\ callLog[i].returned = NUMBER(1)

\* What a session is to leave and to have printed, read off its lines:
\* a is the value of the global a (-1 while it is not defined), out the
\* printed lines.
ExpectedLine(e, line) ==
  CASE line \in {"define_a"} -> [e EXCEPT !.a = 1]
    [] line = "define_a_tokens" -> [e EXCEPT !.a = 5]
    [] line = "bump_fails" ->
         IF e.a < 0 THEN e
         ELSE [a |-> e.a + 1, out |-> Append(e.out, NatToString(e.a + 1))]
    [] line = "call_fails" -> IF e.a < 0 THEN e ELSE [e EXCEPT !.a = @ + 10]
    [] line = "print_a" ->
         IF e.a < 0 THEN e ELSE [e EXCEPT !.out = Append(@, NatToString(e.a))]
    [] line = "shadow_a" -> [e EXCEPT !.out = Append(@, "100")]

RECURSIVE ExpectedSession(_)
ExpectedSession(lines) ==
  IF lines = <<>> THEN [a |-> -1, out |-> <<>>]
  ELSE ExpectedLine(ExpectedSession(SubSeq(lines, 1, Len(lines) - 1)),
                    lines[Len(lines)])

\* C29: in every session of lines run on the one interpreter, whenever a
\* run has ended, with Ok or with a RuntimeError raised inside nested
\* blocks or a call, and whenever the next one starts, the current
\* environment is the global environment; the global a holds what the
\* lines so far defined and assigned, those before the failing statement
\* of a failed run included, and the lines printed are those of a session
\* in which every line saw the globals the earlier lines left.
C29_RunsEndAtGlobals ==
  /\ pc \in {"done", "prompt", "run", "parse", "resolve", "exit"} =>
       environment = Globals
  /\ pc \in {"done", "prompt", "exit"} =>
       \E e \in {ExpectedSession(session)} :
         /\ Printed(stdout) = e.out
         /\ IF e.a < 0 THEN "a" \notin DOMAIN envs[Globals].values
            ELSE /\ "a" \in DOMAIN envs[Globals].values
                 /\ envs[Globals].values["a"] = NUMBER(e.a)
         /\ \A i \in 2..Len(envs) : "a" \in DOMAIN envs[i].values =>
              envs[i].values["a"] = NUMBER(100)

\* C29 witness: a session of three lines has ended whose second run failed
\* inside a call made in a block, after the call assigned the global a,
\* and whose third run printed the a that assignment left.
C29_Witness ==
  /\ pc = "done"
  /\ session = <<"define_a", "call_fails", "print_a">>
  /\ Printed(stdout) = <<"11">>
  /\ environment = Globals
  /\ \E i \in 1..Len(callLog) :
       callLog[i].outcome = "RuntimeError" /\ callLog[i].caller # Globals

\* The body of every loop of the parser moves the cursor: from the token
\* the cursor is at, a declaration (the body of the top-level and of the
\* block loop) ends, parsed or failed and synchronized, further on; so
\* does an expression that parses (the operand of the operator loops, the
\* body of the argument loop), and so does synchronize; none passes EOF.
\* Every list of tokens that follows some token of a list is itself one of
\* the lists parsed, so the loops are entered at every token.
LoopsConsume ==
  \E c \in {current} :
    \E d \in {declaration(ParserAt(c))}, e \in {expression(ParserAt(c))},
       s \in {synchronize(ParserAt(c))} :
      /\ d.p.current > c /\ d.p.current <= Len(tokens) /\ ~d.p.panicked
      /\ e.ok => e.p.current > c
      /\ e.p.current <= Len(tokens) /\ ~e.p.panicked
      /\ s.current > c /\ s.current <= Len(tokens) /\ ~s.panicked

\* C30: on every token list that ends with EOF, Parser::parse terminates;
\* every iteration of the top-level loop that does not end the parse moves
\* the cursor forward, as do the bodies of the block, operator and
\* argument loops and synchronize; the cursor never passes the index of
\* the EOF token, and previous() is never evaluated at the first token.
C30_ParseTerminates ==
  /\ [](/\ current \in 1..Len(tokens)
        /\ result # "Panic"
        /\ (pc = "parse" /\ ~is_at_end(TheParser)) => LoopsConsume)
  /\ [][(pc = "parse" /\ pc' = "parse") => current' > current]_vars
  /\ <>(pc # "parse")

\* C30 witness: the parse of `{ a + a` has ended: it failed inside the
\* block after the operator loop, and synchronize stopped at EOF.
C30_Witness ==
  /\ source = "parser"
  /\ tokens = <<T_LEFT_BRACE, Ident("a"), T_PLUS, Ident("a"), Tk("EOF")>>
  /\ pc = "done"
  /\ result = "ParseError"
  /\ current = 5

====
